---- MODULE Spec2Model ----
(***************************************************************************)
(* Model of pptx/opc/package.py: the OPC package graph (OpcPackage, Part,  *)
(* _Relationships, _Relationship, Unmarshaller, _PackageLoader).           *)
(*                                                                         *)
(* A relationship collection is a Python dict, which keeps insertion       *)
(* order: it is modelled as a sequence of entries [key, rel].  A string    *)
(* the code slices or searches (a partname, a partname template) is a      *)
(* sequence of one-character strings; an rId is a TLA+ string built by     *)
(* the same formatting the code uses.                                      *)
(***************************************************************************)
EXTENDS Integers, Sequences, FiniteSets, TLC

VARIABLES
    rels,       \* owner -> its _Relationships._rels dict (insertion ordered)
    partname,   \* part -> Part._partname
    phase,      \* where the package is in its life: see Phases
    parts_map,  \* while open() runs: its {partname: part} dict, as the set of its parts
    ret,        \* what the last call returned or raised
    wstack,     \* a running iter_rels(): the stack of its walk_rels() generator frames
    wvisited,   \* a running iter_rels(): its `visited` set
    wout,       \* a running iter_rels(): what it has yielded so far
    wparts,     \* the iter_parts() that runs it: what it has yielded so far
    wpc,        \* the traversal: "idle", "walking", "done" or "RecursionError"
    base_uri,   \* owner -> _Relationships._base_uri, None until its `_rels` is first used
    lazy,       \* owner -> the lazyproperty values its relationships have stored
    part_type_for,  \* PartFactory.part_type_for: content type -> part class
    part_obj,   \* part -> the object constructed for it, NoPart until constructed
    reader      \* while open() runs: what the package reader has still to deliver

vars == <<rels, partname, phase, parts_map, ret, wstack, wvisited, wout, wparts, wpc,
          base_uri, lazy, part_type_for, part_obj, reader>>

-----------------------------------------------------------------------------
(* Bounds of the model *)

\* Spec: the most relationships the whole graph holds.
MaxRels == 3
\* SpecRels: the most relationships the one collection holds.
MaxColl == 2
\* SpecPartname: the largest number appearing in an existing partname.
MaxNum == 4

-----------------------------------------------------------------------------
(* Objects and input values *)

PKG == "pkg"
AllParts == {"slide", "layout", "master"}
Parts == {"slide", "layout"}
Owners == {PKG} \cup Parts

INTERNAL == "Internal"
EXTERNAL == "External"

None == "None"
NoExc == ""

RT_SLIDE == "rt/slide"
RT_IMAGE == "rt/image"
RelTypes == {RT_SLIDE, RT_IMAGE}
ExtRefs == {"http://a"}

\* "rId%d" % n
RIdStr(n) == "rId" \o ToString(n)

\* str(n) for n >= 0, as a sequence of characters
RECURSIVE Digits(_)
Digits(n) == IF n < 10 THEN <<ToString(n)>> ELSE Digits(n \div 10) \o <<ToString(n % 10)>>

\* s.find(sub): the least 0-based index at which sub occurs in s, -1 when none
StrFind(s, sub) ==
    LET hits == {i \in 1..(Len(s) - Len(sub) + 1) : SubSeq(s, i, i + Len(sub) - 1) = sub}
    IN IF hits = {} THEN -1 ELSE (CHOOSE i \in hits : \A j \in hits : i <= j) - 1

\* s.startswith(prefix)
StartsWith(s, prefix) == Len(prefix) <= Len(s) /\ SubSeq(s, 1, Len(prefix)) = prefix

\* tmpl % n, for a template holding one "%d"
StrFormat(tmpl, n) ==
    LET at == StrFind(tmpl, <<"%", "d">>)
    IN SubSeq(tmpl, 1, at) \o Digits(n) \o SubSeq(tmpl, at + 3, Len(tmpl))

-----------------------------------------------------------------------------
(* _Relationship *)

Relationship(rId, reltype, target_mode, target) ==
    [rId |-> rId, reltype |-> reltype, target_mode |-> target_mode, target |-> target]

is_external(rel) == rel.target_mode = EXTERNAL

\* target_part handing out self._target whatever the target mode
target_part_unguarded(rel) == [exc |-> NoExc, val |-> rel.target]

\* rel.target_part: [exc, val]
target_part(rel) ==
    IF is_external(rel) THEN [exc |-> "ValueError", val |-> None]
    ELSE [exc |-> NoExc, val |-> rel.target]

\* rel.target_partname when it is first read, pn naming the parts: [exc, val]
target_partname(rel, pn) ==
    IF is_external(rel) THEN [exc |-> "ValueError", val |-> None]
    ELSE [exc |-> NoExc, val |-> pn[rel.target]]

-----------------------------------------------------------------------------
(* Part, XmlPart and PartFactory.  A part object is [cls, content_type,       *)
(* blob, element]; the registry part_type_for is a set of [ct, cls].         *)

CT_XML == "ct/xml"
CT_BIN == "ct/bin"
ContentTypes == {CT_XML, CT_BIN}

\* bytes, and the XML trees parse_xml makes of them: two spellings of one
\* tree, and bytes that are no XML
XmlBlob == "<a />"
CanonicalXmlBlob == "<a/>"
BadXmlBlob == "<a"
BinBlob == "bytes"

\* parse_xml(blob): [exc, val]
parse_xml(blob) ==
    IF blob \in {XmlBlob, CanonicalXmlBlob} THEN [exc |-> NoExc, val |-> "a"]
    ELSE [exc |-> "XMLSyntaxError", val |-> None]

\* serialize_part_xml(element)
serialize_part_xml(element) == IF element = "a" THEN CanonicalXmlBlob ELSE None

\* no part object: what a part that is not constructed yet has
NoPart == [cls |-> None, content_type |-> None, blob |-> None, element |-> None]

\* Part.load(partname, content_type, blob, package): [exc, val]
Part_load(content_type, blob) ==
    [exc |-> NoExc,
     val |-> [cls |-> "Part", content_type |-> content_type, blob |-> blob, element |-> None]]

\* XmlPart.load(partname, content_type, blob, package): [exc, val]
XmlPart_load(content_type, blob) ==
    LET element == parse_xml(blob)
    IN IF element.exc # NoExc THEN [exc |-> element.exc, val |-> NoPart]
       ELSE [exc |-> NoExc,
             val |-> [cls |-> "XmlPart", content_type |-> content_type, blob |-> None,
                      element |-> element.val]]

\* part.blob
blob_of(part) == IF part.cls = "XmlPart" THEN serialize_part_xml(part.element) ELSE part.blob

default_part_type == "Part"

\* PartFactory._part_cls_for(content_type), reg being part_type_for
_part_cls_for(reg, content_type) ==
    IF \E en \in reg : en.ct = content_type
    THEN (CHOOSE en \in reg : en.ct = content_type).cls
    ELSE default_part_type

\* PartFactory registering the default class for a content type it did not know
PartFactory_registers_default(reg, content_type, blob) ==
    LET PartClass == _part_cls_for(reg, content_type)
        made == IF PartClass = "XmlPart" THEN XmlPart_load(content_type, blob)
                ELSE Part_load(content_type, blob)
    IN [reg |-> reg \cup {[ct |-> content_type, cls |-> PartClass]},
        exc |-> made.exc, val |-> made.val]

\* PartFactory(partname, content_type, blob, package): the registry
\* afterwards, the exception raised and the part made
PartFactory(reg, content_type, blob) ==
    LET PartClass == _part_cls_for(reg, content_type)
        made == IF PartClass = "XmlPart" THEN XmlPart_load(content_type, blob)
                ELSE Part_load(content_type, blob)
    IN [reg |-> reg, exc |-> made.exc, val |-> made.val]

-----------------------------------------------------------------------------
(* The dict behind a _Relationships collection *)

dict_keys(d) == {d[i].key : i \in DOMAIN d}

dict_get(d, k) == d[CHOOSE i \in DOMAIN d : d[i].key = k].rel

\* list(d.values())
dict_values(d) == [i \in DOMAIN d |-> d[i].rel]

\* d[k] = v: an existing key keeps its place, a new key goes last
dict_set(d, k, v) ==
    IF k \in dict_keys(d)
    THEN [i \in DOMAIN d |-> IF d[i].key = k THEN [key |-> k, rel |-> v] ELSE d[i]]
    ELSE Append(d, [key |-> k, rel |-> v])

\* del d[k], for a key of d
dict_del(d, k) ==
    LET at == CHOOSE i \in DOMAIN d : d[i].key = k
    IN SubSeq(d, 1, at - 1) \o SubSeq(d, at + 1, Len(d))

-----------------------------------------------------------------------------
(* _Relationships: every operation returns [c, exc, val]: the collection     *)
(* afterwards, the exception raised (NoExc when none) and the value returned *)

Returned(c, val) == [c |-> c, exc |-> NoExc, val |-> val]
Raised(c, exc) == [c |-> c, exc |-> exc, val |-> None]

\* _rels_by_reltype[reltype]: the relationships of that type, in dict order
_rels_by_reltype(d, reltype) == SelectSeq(dict_values(d), LAMBDA rel : rel.reltype = reltype)

\* the downward search of _next_rId from candidate number n; None when the
\* loop ends without a return
RECURSIVE next_rId_from(_, _)
next_rId_from(d, n) ==
    IF n < 1 THEN None
    ELSE IF RIdStr(n) \notin dict_keys(d) THEN RIdStr(n)
    ELSE next_rId_from(d, n - 1)

\* _next_rId taking "rId%d" % (len + 1) without looking for it among the keys
_next_rId_unchecked(d) == RIdStr(Len(d) + 1)

\* _next_rId starting its search at len instead of len + 1
_next_rId_from_len(d) == next_rId_from(d, Len(d))

_next_rId(d) == next_rId_from(d, Len(d) + 1)

\* _get_matching searching every relationship instead of the reltype bucket
_get_matching_any_reltype(d, reltype, target, ext) ==
    LET bucket == dict_values(d)
        hits == {i \in DOMAIN bucket :
                    /\ is_external(bucket[i]) = ext
                    /\ bucket[i].target = target}
    IN IF hits = {} THEN None
       ELSE bucket[CHOOSE i \in hits : \A j \in hits : i <= j].rId

_get_matching(d, reltype, target, ext) ==
    LET bucket == _rels_by_reltype(d, reltype)
        hits == {i \in DOMAIN bucket :
                    /\ is_external(bucket[i]) = ext
                    /\ bucket[i].target = target}
    IN IF hits = {} THEN None
       ELSE bucket[CHOOSE i \in hits : \A j \in hits : i <= j].rId

_add_relationship(d, reltype, target, ext) ==
    LET rId == _next_rId(d)
        rel == Relationship(rId, reltype, IF ext THEN EXTERNAL ELSE INTERNAL, target)
    IN Returned(dict_set(d, rId, rel), rId)

\* add_relationship storing the relationship under the next free id
add_relationship_next_key(d, reltype, target, rId, ext) ==
    LET rel == Relationship(rId, reltype, IF ext THEN EXTERNAL ELSE INTERNAL, target)
    IN Returned(dict_set(d, _next_rId(d), rel), rel)

add_relationship(d, reltype, target, rId, ext) ==
    LET rel == Relationship(rId, reltype, IF ext THEN EXTERNAL ELSE INTERNAL, target)
    IN Returned(dict_set(d, rId, rel), rel)

\* get_or_add without the search for an existing relationship
get_or_add_always_adds(d, reltype, target) ==
    _add_relationship(d, reltype, target, FALSE)

get_or_add(d, reltype, target) ==
    LET existing_rId == _get_matching(d, reltype, target, FALSE)
    IN IF existing_rId = None
       THEN _add_relationship(d, reltype, target, FALSE)
       ELSE Returned(d, existing_rId)

get_or_add_ext_rel(d, reltype, target_ref) ==
    LET existing_rId == _get_matching(d, reltype, target_ref, TRUE)
    IN IF existing_rId = None
       THEN _add_relationship(d, reltype, target_ref, TRUE)
       ELSE Returned(d, existing_rId)

\* pop giving None for an rId that is no key, like dict.pop(rId, None)
pop_or_none(d, rId) ==
    IF rId \in dict_keys(d) THEN Returned(dict_del(d, rId), dict_get(d, rId))
    ELSE Returned(d, None)

pop(d, rId) ==
    IF rId \in dict_keys(d) THEN Returned(dict_del(d, rId), dict_get(d, rId))
    ELSE Raised(d, "KeyError")

\* rels[rId]
getitem(d, rId) ==
    IF rId \in dict_keys(d) THEN Returned(d, dict_get(d, rId)) ELSE Raised(d, "KeyError")

\* part_with_reltype taking the first relationship of the type when there
\* are several
part_with_reltype_first(d, reltype) ==
    LET rels_of_reltype == _rels_by_reltype(d, reltype)
    IN IF Len(rels_of_reltype) = 0 THEN Raised(d, "KeyError")
       ELSE LET t == target_part(rels_of_reltype[1]) IN [c |-> d, exc |-> t.exc, val |-> t.val]

\* part_with_reltype handing out the target of the one relationship
\* whatever its target mode
part_with_reltype_raw_target(d, reltype) ==
    LET rels_of_reltype == _rels_by_reltype(d, reltype)
    IN IF Len(rels_of_reltype) = 0 THEN Raised(d, "KeyError")
       ELSE IF Len(rels_of_reltype) > 1 THEN Raised(d, "ValueError")
       ELSE Returned(d, rels_of_reltype[1].target)

part_with_reltype(d, reltype) ==
    LET rels_of_reltype == _rels_by_reltype(d, reltype)
    IN IF Len(rels_of_reltype) = 0 THEN Raised(d, "KeyError")
       ELSE IF Len(rels_of_reltype) > 1 THEN Raised(d, "ValueError")
       ELSE LET t == target_part(rels_of_reltype[1]) IN [c |-> d, exc |-> t.exc, val |-> t.val]

-----------------------------------------------------------------------------
(* OpcPackage / Part: the calls that delegate to the owner's collection *)

part_related_by(d, reltype) == part_with_reltype(d, reltype)

\* Part.related_part(rId): self._rels[rId].target_part
related_part(d, rId) ==
    LET g == getitem(d, rId)
    IN IF g.exc # NoExc THEN g
       ELSE LET t == target_part(g.val) IN [c |-> d, exc |-> t.exc, val |-> t.val]

relate_to(d, target, reltype, ext) ==
    IF ext THEN get_or_add_ext_rel(d, reltype, target) ELSE get_or_add(d, reltype, target)

\* load_rel returning a matching relationship the collection already holds
load_rel_checks_duplicates(d, reltype, target, rId, ext) ==
    LET existing_rId == _get_matching(d, reltype, target, ext)
    IN IF existing_rId = None THEN add_relationship(d, reltype, target, rId, ext)
       ELSE Returned(d, dict_get(d, existing_rId))

load_rel(d, reltype, target, rId, ext) == add_relationship(d, reltype, target, rId, ext)

\* _rel_ref_count(rId), for rIds the values of the r:id attributes of the
\* part's XML, self._element.xpath("//@r:id")
_rel_ref_count(rIds, rId) == Cardinality({i \in DOMAIN rIds : rIds[i] = rId})

\* drop_rel keeping a relationship only from the third reference on
drop_rel_under_3(d, rId, ref_count) ==
    IF ref_count < 3
    THEN LET r == pop(d, rId) IN IF r.exc = NoExc THEN Returned(r.c, None) ELSE r
    ELSE Returned(d, None)

\* ref_count is _rel_ref_count(rId): how often the part's XML refers to rId;
\* drop_rel itself returns nothing
drop_rel(d, rId, ref_count) ==
    IF ref_count < 2
    THEN LET r == pop(d, rId) IN IF r.exc = NoExc THEN Returned(r.c, None) ELSE r
    ELSE Returned(d, None)

-----------------------------------------------------------------------------
(* OpcPackage.iter_rels / iter_parts over a graph g: owner -> dict.          *)
(* A reference to a relationship is [owner, key, rel]: the _Relationship     *)
(* object stored under `key` in the dict of `owner`.                         *)

\* list(rels), as __iter__ snapshots it, for the collection of owner o
rel_refs(g, o) == [i \in DOMAIN g[o] |-> [owner |-> o, key |-> g[o][i].key, rel |-> g[o][i].rel]]

\* walk_rels with the visited test moved before the yield
RECURSIVE walk_rels_yield_unvisited_only(_, _, _, _)
walk_rels_yield_unvisited_only(g, lst, i, visited) ==
    IF i > Len(lst) THEN [out |-> <<>>, visited |-> visited]
    ELSE LET ref == lst[i]
             part == ref.rel.target
         IN IF is_external(ref.rel)
            THEN LET rest == walk_rels_yield_unvisited_only(g, lst, i + 1, visited)
                 IN [out |-> <<ref>> \o rest.out, visited |-> rest.visited]
            ELSE IF part \in visited
            THEN walk_rels_yield_unvisited_only(g, lst, i + 1, visited)
            ELSE LET sub == walk_rels_yield_unvisited_only(
                                g, rel_refs(g, part), 1, visited \cup {part})
                     rest == walk_rels_yield_unvisited_only(g, lst, i + 1, sub.visited)
                 IN [out |-> <<ref>> \o sub.out \o rest.out, visited |-> rest.visited]

\* walk_rels yielding the relationships of a collection before it recurses
\* into any of their targets
RECURSIVE walk_rels_siblings_first(_, _, _, _)
walk_rels_siblings_first(g, lst, i, visited) ==
    IF i > Len(lst) THEN [out |-> <<>>, visited |-> visited]
    ELSE LET ref == lst[i]
             part == ref.rel.target
             own == IF i = 1 THEN lst ELSE <<>>
         IN IF is_external(ref.rel) \/ part \in visited
            THEN LET rest == walk_rels_siblings_first(g, lst, i + 1, visited)
                 IN [out |-> own \o rest.out, visited |-> rest.visited]
            ELSE LET sub == walk_rels_siblings_first(
                                g, rel_refs(g, part), 1, visited \cup {part})
                     rest == walk_rels_siblings_first(g, lst, i + 1, sub.visited)
                 IN [out |-> own \o sub.out \o rest.out, visited |-> rest.visited]

\* walk_rels(rels) resumed at item i of its snapshot lst, with the closure's
\* `visited`: what it yields from there on, and `visited` when it ends
RECURSIVE walk_rels(_, _, _, _)
walk_rels(g, lst, i, visited) ==
    IF i > Len(lst) THEN [out |-> <<>>, visited |-> visited]
    ELSE LET ref == lst[i]
             part == ref.rel.target
         IN IF is_external(ref.rel) \/ part \in visited
            THEN LET rest == walk_rels(g, lst, i + 1, visited)
                 IN [out |-> <<ref>> \o rest.out, visited |-> rest.visited]
            ELSE LET sub == walk_rels(g, rel_refs(g, part), 1, visited \cup {part})
                     rest == walk_rels(g, lst, i + 1, sub.visited)
                 IN [out |-> <<ref>> \o sub.out \o rest.out, visited |-> rest.visited]

iter_rels(g) == walk_rels(g, rel_refs(g, PKG), 1, {}).out

\* iter_parts without its visited test
RECURSIVE iter_parts_no_visited(_, _, _)
iter_parts_no_visited(rs, i, visited) ==
    IF i > Len(rs) THEN <<>>
    ELSE IF is_external(rs[i].rel) THEN iter_parts_no_visited(rs, i + 1, visited)
    ELSE <<rs[i].rel.target>> \o iter_parts_no_visited(rs, i + 1, visited)

\* iter_parts with visited.add(part) moved before the visited test
RECURSIVE iter_parts_add_first(_, _, _)
iter_parts_add_first(rs, i, visited) ==
    IF i > Len(rs) THEN <<>>
    ELSE iter_parts_add_first(rs, i + 1, visited \cup {rs[i].rel.target})

\* the loop of iter_parts over the relationships rs, resumed at item i
RECURSIVE iter_parts_from(_, _, _)
iter_parts_from(rs, i, visited) ==
    IF i > Len(rs) THEN <<>>
    ELSE LET rel == rs[i].rel
         IN IF is_external(rel) \/ rel.target \in visited
            THEN iter_parts_from(rs, i + 1, visited)
            ELSE <<rel.target>> \o iter_parts_from(rs, i + 1, visited \cup {rel.target})

iter_parts(g) == iter_parts_from(iter_rels(g), 1, {})

-----------------------------------------------------------------------------
(* Actions: one call on the package or on a part *)

Ret(op, r) == [op |-> op, exc |-> r.exc, val |-> r.val]

wvars == <<wstack, wvisited, wout, wparts, wpc>>

\* the state of the objects outside the relationship dicts
ovars == <<base_uri, lazy, part_type_for, part_obj, reader>>

\* the package object exists and no load is running on it
InUse == phase \in {"new", "live"}

RECURSIVE SumLen(_, _)
SumLen(g, os) ==
    IF os = {} THEN 0
    ELSE LET o == CHOOSE x \in os : TRUE IN Len(g[o]) + SumLen(g, os \ {o})

TotalRels(g) == SumLen(g, Owners)

Call(o, op, r) ==
    /\ InUse
    /\ rels' = [rels EXCEPT ![o] = r.c]
    /\ ret' = Ret(op, r)
    /\ phase' = "live"
    /\ UNCHANGED <<partname, parts_map, wvars, ovars>>

RelateTo(o, target, reltype, ext) == Call(o, "relate_to", relate_to(rels[o], target, reltype, ext))

LoadRel(o, reltype, target, rId, ext) ==
    Call(o, "load_rel", load_rel(rels[o], reltype, target, rId, ext))

\* p.drop_rel(rId), the XML of p holding the r:id attribute values rIds
DropRel(p, rId, rIds) ==
    Call(p, "drop_rel", drop_rel(rels[p], rId, _rel_ref_count(rIds, rId)))

Pop(o, rId) == Call(o, "pop", pop(rels[o], rId))

PartRelatedBy(o, reltype) == Call(o, "part_related_by", part_related_by(rels[o], reltype))

RelatedPart(p, rId) == Call(p, "related_part", related_part(rels[p], rId))

IterRels == Call(PKG, "iter_rels", Returned(rels[PKG], iter_rels(rels)))

IterParts == Call(PKG, "iter_parts", Returned(rels[PKG], iter_parts(rels)))

-----------------------------------------------------------------------------
(* OpcPackage.open: _PackageLoader._load, Unmarshaller.unmarshal and         *)
(* _Relationships.load_from_xml.  The loops over what the reader delivers    *)
(* run one record per step; no other call runs on the package meanwhile.     *)

PACKAGE_URI == <<"/">>

\* the segments of a path: what stands between its "/"
RECURSIVE Segs(_)
Segs(s) ==
    IF s = <<>> THEN <<>>
    ELSE LET i == StrFind(s, <<"/">>) + 1
         IN IF i = 0 THEN <<s>>
            ELSE (IF i = 1 THEN <<>> ELSE <<SubSeq(s, 1, i - 1)>>)
                    \o Segs(SubSeq(s, i + 1, Len(s)))

RECURSIVE JoinRel(_)
JoinRel(q) ==
    IF q = <<>> THEN <<>>
    ELSE IF Len(q) = 1 THEN q[1] ELSE q[1] \o <<"/">> \o JoinRel(Tail(q))

JoinAbs(q) == <<"/">> \o JoinRel(q)

\* posixpath.normpath on segments: ".." drops the segment before it
RECURSIVE NormSegs(_, _)
NormSegs(q, acc) ==
    IF q = <<>> THEN acc
    ELSE IF q[1] = <<".", ".">>
         THEN NormSegs(Tail(q), IF acc = <<>> THEN acc ELSE SubSeq(acc, 1, Len(acc) - 1))
    ELSE IF q[1] = <<".">> THEN NormSegs(Tail(q), acc)
    ELSE NormSegs(Tail(q), Append(acc, q[1]))

\* PackURI.baseURI: the directory of a partname, "/" for the package
baseURI(pn) == JoinAbs(SubSeq(Segs(pn), 1, Len(Segs(pn)) - 1))

\* PackURI.relative_ref(baseURI): the path from the directory baseURI to pn
relative_ref(pn, base) ==
    LET t == Segs(pn)
        b == Segs(base)
        same == {k \in 0..Len(b) : k <= Len(t) /\ SubSeq(t, 1, k) = SubSeq(b, 1, k)}
        k == CHOOSE n \in same : \A m \in same : m <= n
    IN JoinRel([i \in 1..(Len(b) - k) |-> <<".", ".">>] \o SubSeq(t, k + 1, Len(t)))

\* PackURI.from_rel_ref(base_uri, relative_ref): the reference resolved
\* against the directory base_uri
from_rel_ref(base, ref) ==
    IF ref # <<>> /\ ref[1] = "/"
    THEN JoinAbs(NormSegs(Segs(ref), <<>>))
    ELSE JoinAbs(NormSegs(Segs(base) \o Segs(ref), <<>>))

\* pm is a {partname: part} dict, held as the set of its parts
has_partname(pm, pn) == \E p \in pm : partname[p] = pn
part_named(pm, pn) == CHOOSE p \in pm : partname[p] = pn

\* cls(pkg_file)._load() up to the end of Unmarshaller._unmarshal_parts:
\* every part the reader delivers is constructed and put in the part map
OpenBegin ==
    /\ phase = "new"
    /\ phase' = "unmarshal"
    /\ parts_map' = Parts
    /\ ret' = [op |-> "_unmarshal_parts", exc |-> NoExc, val |-> None]
    /\ UNCHANGED <<rels, partname, wvars, ovars>>

\* one round of the loop of Unmarshaller._unmarshal_relationships on the
\* record (source_uri, srel), pm being the part map: the graph afterwards and
\* the exception raised
unmarshal_relationship(g, pm, source_uri, srel) ==
    IF source_uri # PACKAGE_URI /\ ~has_partname(pm, source_uri)
    THEN [g |-> g, exc |-> "KeyError"]
    ELSE IF ~srel.is_external /\ ~has_partname(pm, srel.target_partname)
    THEN [g |-> g, exc |-> "KeyError"]
    ELSE LET source == IF source_uri = PACKAGE_URI THEN PKG ELSE part_named(pm, source_uri)
             target == IF srel.is_external THEN srel.target_ref
                       ELSE part_named(pm, srel.target_partname)
             r == load_rel(g[source], srel.reltype, target, srel.rId, srel.is_external)
         IN [g |-> [g EXCEPT ![source] = r.c], exc |-> NoExc]

\* that round on the record (source_uri, srel) of pkg_reader.iter_srels()
UnmarshalRel(source_uri, srel) ==
    /\ phase = "unmarshal"
    /\ source_uri = PACKAGE_URI \/ has_partname(parts_map, source_uri)
    /\ LET r == unmarshal_relationship(rels, parts_map, source_uri, srel)
       IN IF r.exc # NoExc
          THEN \* parts[srel.target_partname] raises, and open() with it
               /\ phase' = "failed"
               /\ parts_map' = {}
               /\ ret' = [op |-> "open", exc |-> r.exc, val |-> srel.rId]
               /\ UNCHANGED rels
          ELSE /\ rels' = r.g
               /\ ret' = [op |-> "_unmarshal_relationships", exc |-> NoExc, val |-> srel.rId]
               /\ UNCHANGED <<phase, parts_map>>
    /\ UNCHANGED <<partname, wvars, ovars>>

\* iter_srels() is exhausted: _PackageLoader._load builds the part map from
\* package.iter_parts(), and load_from_xml clears the package's collection
LoadFromXmlBegin ==
    /\ phase = "unmarshal"
    /\ phase' = "load_from_xml"
    /\ parts_map' = {iter_parts(rels)[i] : i \in DOMAIN iter_parts(rels)}
    /\ rels' = [rels EXCEPT ![PKG] = <<>>]
    /\ ret' = [op |-> "load_from_xml", exc |-> NoExc, val |-> None]
    /\ UNCHANGED <<partname, wvars, ovars>>

\* _Relationship.from_xml(base, rel_elm, parts)
from_xml(base, rel_elm, pm) ==
    Relationship(rel_elm.rId, rel_elm.reltype, rel_elm.targetMode,
                 IF rel_elm.targetMode = EXTERNAL THEN rel_elm.target_ref
                 ELSE part_named(pm, from_rel_ref(base, rel_elm.target_ref)))

\* whether iter_valid_rels() skips rel_elm
is_broken_rel(base, rel_elm, pm) ==
    /\ rel_elm.targetMode = INTERNAL
    /\ ~has_partname(pm, from_rel_ref(base, rel_elm.target_ref))

\* one element of xml_rels.relationship_lst through iter_valid_rels() and
\* the dict update of load_from_xml
load_xml_rel(d, base, rel_elm, pm) ==
    IF is_broken_rel(base, rel_elm, pm) THEN Returned(d, "skipped")
    ELSE LET rel == from_xml(base, rel_elm, pm)
         IN Returned(dict_set(d, rel.rId, rel), rel.rId)

\* self._rels.update((rel.rId, rel) for rel in iter_valid_rels()) on the dict d
RECURSIVE update_valid_rels(_, _, _, _)
update_valid_rels(d, base, rel_elms, pm) ==
    IF rel_elms = <<>> THEN d
    ELSE update_valid_rels(load_xml_rel(d, base, Head(rel_elms), pm).c, base,
                           Tail(rel_elms), pm)

\* load_from_xml without self._rels.clear()
load_from_xml_no_clear(d, base, rel_elms, pm) == update_valid_rels(d, base, rel_elms, pm)

\* load_from_xml(base_uri, xml_rels, parts) on the collection d: the dict afterwards
load_from_xml(d, base, rel_elms, pm) == update_valid_rels(<<>>, base, rel_elms, pm)

LoadFromXmlRel(rel_elm) ==
    /\ phase = "load_from_xml"
    /\ LET r == load_xml_rel(rels[PKG], PACKAGE_URI, rel_elm, parts_map)
       IN /\ rels' = [rels EXCEPT ![PKG] = r.c]
          /\ ret' = Ret("load_from_xml", r)
    /\ UNCHANGED <<partname, phase, parts_map, wvars, ovars>>

\* relationship_lst is exhausted: _load returns the package, open() returns it
OpenEnd ==
    /\ phase = "load_from_xml"
    /\ phase' = "live"
    /\ parts_map' = {}
    /\ ret' = [op |-> "open", exc |-> NoExc, val |-> None]
    /\ UNCHANGED <<rels, partname, wvars, ovars>>

-----------------------------------------------------------------------------
(* Spec: the package graph under its public operations *)

\* the partnames the parts are constructed with
SlideTmpl == <<"/", "s", "%", "d", ".", "x">>
PartNumber == [slide |-> 1, layout |-> 2, master |-> 3]
InitPartname == [p \in AllParts |-> StrFormat(SlideTmpl, PartNumber[p])]

\* the objects as the specifications that do not follow them keep them: no
\* collection has a base URI or a stored property yet, nothing is registered
\* with the factory, the parts are XML parts, no reader is open
PlainObjects ==
    /\ base_uri = [o \in {PKG} \cup AllParts |-> None]
    /\ lazy = [o \in {PKG} \cup AllParts |-> {}]
    /\ part_type_for = {}
    /\ part_obj = [p \in AllParts |-> XmlPart_load(CT_XML, XmlBlob).val]
    /\ reader = None

\* no traversal is running
NoWalk == wstack = <<>> /\ wvisited = {} /\ wout = <<>> /\ wparts = <<>> /\ wpc = "idle"

Init ==
    /\ rels = [o \in Owners |-> <<>>]
    /\ partname = InitPartname
    /\ phase = "new"
    /\ parts_map = {}
    /\ ret = [op |-> "init", exc |-> NoExc, val |-> None]
    /\ NoWalk
    /\ PlainObjects

GraphRelTypes == {RT_SLIDE}
GraphKeys == {RIdStr(1)}
\* the r:id attribute values an XML part may hold, in document order
XmlRIdLists ==
    {<<>>, <<RIdStr(1)>>, <<RIdStr(2)>>, <<RIdStr(1), RIdStr(1)>>, <<RIdStr(1), RIdStr(2)>>,
     <<RIdStr(2), RIdStr(1), RIdStr(2)>>, <<RIdStr(1), RIdStr(1), RIdStr(1)>>}
TargetsOf(ext) == IF ext THEN ExtRefs ELSE Parts

\* what the reader may deliver: a partname no part has stands for a
\* relationship a client voided, like "/ppt/slides/NULL"
NullPartname == <<"/", "N", "U", "L", "L">>
ReaderKeys == {RIdStr(1), RIdStr(2)}
SourceURIs == {PACKAGE_URI} \cup {InitPartname[p] : p \in Parts}
TargetPartnames == {InitPartname[p] : p \in Parts} \cup {NullPartname}
SRels ==
    [rId : ReaderKeys, reltype : GraphRelTypes, is_external : {FALSE},
     target_partname : TargetPartnames, target_ref : {None}]
    \cup [rId : ReaderKeys, reltype : GraphRelTypes, is_external : {TRUE},
          target_partname : {None}, target_ref : ExtRefs]
RelElms ==
    [rId : ReaderKeys, reltype : GraphRelTypes, targetMode : {INTERNAL},
     target_ref : {Tail(pn) : pn \in TargetPartnames}]
    \cup [rId : ReaderKeys, reltype : GraphRelTypes, targetMode : {EXTERNAL},
          target_ref : ExtRefs]

Next ==
    \/ \E o \in Owners, ext \in BOOLEAN, reltype \in GraphRelTypes :
         \E target \in TargetsOf(ext) :
            RelateTo(o, target, reltype, ext) /\ TotalRels(rels') <= MaxRels
    \/ \E o \in Owners, ext \in BOOLEAN, reltype \in GraphRelTypes, rId \in GraphKeys :
         \E target \in TargetsOf(ext) :
            LoadRel(o, reltype, target, rId, ext) /\ TotalRels(rels') <= MaxRels
    \/ \E p \in Parts, rId \in GraphKeys, rIds \in XmlRIdLists : DropRel(p, rId, rIds)
    \/ \E o \in Owners, reltype \in GraphRelTypes : PartRelatedBy(o, reltype)
    \/ \E p \in Parts, rId \in GraphKeys : RelatedPart(p, rId)
    \/ IterRels
    \/ IterParts
    \/ OpenBegin
    \/ \E source_uri \in SourceURIs, srel \in SRels :
         UnmarshalRel(source_uri, srel) /\ TotalRels(rels') <= MaxRels
    \/ LoadFromXmlBegin
    \/ \E rel_elm \in RelElms : LoadFromXmlRel(rel_elm) /\ TotalRels(rels') <= MaxRels
    \/ OpenEnd

Spec == Init /\ [][Next]_vars

-----------------------------------------------------------------------------
(* SpecRels: one collection (the package's) under get_or_add,                *)
(* get_or_add_ext_rel, add_relationship (through load_rel), load_from_xml    *)
(* and pop, with                                                             *)
(* ids a loaded package may carry: gaps, and an id "rId%d" never produces    *)

RelsKeys == {RIdStr(1), RIdStr(3), "rId01"}
PopKeys == RelsKeys \cup {RIdStr(2)}

\* a relationship element of a rels item
XmlElm(rId, targetMode, target_ref) ==
    [rId |-> rId, reltype |-> RT_SLIDE, targetMode |-> targetMode, target_ref |-> target_ref]
ToSlide(rId) == XmlElm(rId, INTERNAL, Tail(InitPartname["slide"]))
ToNull(rId) == XmlElm(rId, INTERNAL, Tail(NullPartname))
ToUrl(rId) == XmlElm(rId, EXTERNAL, "http://a")

\* the rels items load_from_xml is given, one after the other: with none,
\* one and two elements, with a target no part has, and with one id twice
XmlItems ==
    << <<>>,
       <<ToSlide(RIdStr(1))>>,
       <<ToNull(RIdStr(1))>>,
       <<ToUrl(RIdStr(3))>>,
       <<ToSlide(RIdStr(1)), ToUrl(RIdStr(3))>>,
       <<ToNull(RIdStr(1)), ToSlide(RIdStr(3))>>,
       <<ToSlide(RIdStr(1)), ToUrl(RIdStr(1))>>,
       <<ToUrl(RIdStr(3)), ToSlide(RIdStr(3))>>,
       <<ToSlide(RIdStr(1)), ToNull(RIdStr(1))>> >>
\* the {partname: part} dicts it is given: every part, and the layout alone
XmlParts == {Parts, {"layout"}}

\* rels.load_from_xml(PACKAGE_URI, xml_rels, parts) on the package's collection
LoadFromXml(xml_rels, pm) ==
    Call(PKG, "load_from_xml",
         Returned(load_from_xml(rels[PKG], PACKAGE_URI, xml_rels, pm), Len(xml_rels)))

RelsNext ==
    \/ \E ext \in BOOLEAN, reltype \in RelTypes :
         \E target \in TargetsOf(ext) :
            RelateTo(PKG, target, reltype, ext) /\ Len(rels'[PKG]) <= MaxColl
    \/ \E ext \in BOOLEAN, reltype \in RelTypes, rId \in RelsKeys :
         \E target \in TargetsOf(ext) :
            LoadRel(PKG, reltype, target, rId, ext) /\ Len(rels'[PKG]) <= MaxColl
    \/ \E rId \in PopKeys : Pop(PKG, rId)
    \/ \E n \in DOMAIN XmlItems, pm \in XmlParts :
         LoadFromXml(XmlItems[n], pm) /\ Len(rels'[PKG]) <= MaxColl

SpecRels == Init /\ [][RelsNext]_vars

\* SpecGrow: the package's collection starts empty and is modified by
\* get_or_add and get_or_add_ext_rel alone (through relate_to)
MaxGrow == 3

GrowNext ==
    \/ \E reltype \in RelTypes, target \in Parts :
         RelateTo(PKG, target, reltype, FALSE) /\ Len(rels'[PKG]) <= MaxGrow
    \/ \E reltype \in RelTypes, target_ref \in ExtRefs :
         RelateTo(PKG, target_ref, reltype, TRUE) /\ Len(rels'[PKG]) <= MaxGrow

SpecGrow == Init /\ [][GrowNext]_vars

-----------------------------------------------------------------------------
(* OpcPackage.next_partname, and SpecPartname: parts constructed with any    *)
(* partnames, related to the package one by one, and next_partname asked     *)

\* next_partname taking tmpl % n without looking for it among the partnames
next_partname_from_unchecked(tmpl, partnames, n) ==
    IF n < 1 THEN [exc |-> "ProgrammingError", val |-> None]
    ELSE [exc |-> NoExc, val |-> StrFormat(tmpl, n)]

\* the loop of next_partname from candidate number n
RECURSIVE next_partname_from(_, _, _)
next_partname_from(tmpl, partnames, n) ==
    IF n < 1 THEN [exc |-> "ProgrammingError", val |-> None]
    ELSE IF StrFormat(tmpl, n) \notin partnames
         THEN [exc |-> NoExc, val |-> StrFormat(tmpl, n)]
         ELSE next_partname_from(tmpl, partnames, n - 1)

\* tmpl[: (tmpl % 42).find("42")]
template_prefix(tmpl) == SubSeq(tmpl, 1, StrFind(StrFormat(tmpl, 42), <<"4", "2">>))

\* next_partname starting its search at len(partnames)
next_partname_from_count(g, pn, tmpl) ==
    LET prefix == template_prefix(tmpl)
        ps == iter_parts(g)
        partnames == {pn[ps[i]] : i \in {j \in DOMAIN ps : StartsWith(pn[ps[j]], prefix)}}
    IN next_partname_from(tmpl, partnames, Cardinality(partnames))

\* next_partname(tmpl) on graph g whose parts are named by pn
next_partname(g, pn, tmpl) ==
    LET prefix == template_prefix(tmpl)
        ps == iter_parts(g)
        partnames == {pn[ps[i]] : i \in {j \in DOMAIN ps : StartsWith(pn[ps[j]], prefix)}}
    IN next_partname_from(tmpl, partnames, Cardinality(partnames) + 1)

NextPartname(tmpl) ==
    LET r == next_partname(rels, partname, tmpl)
    IN Call(PKG, "next_partname", [c |-> rels[PKG], exc |-> r.exc, val |-> r.val])

\* "/42s%d": a template whose text before the "%d" holds "42"
Tmpl42 == <<"/", "4", "2", "s", "%", "d">>
Tmpls == {SlideTmpl, Tmpl42}

\* the partnames parts are constructed with: partnames made from the
\* templates, and one that starts like them without being made from one
PnNames ==
    {StrFormat(SlideTmpl, n) : n \in 1..MaxNum} \cup {StrFormat(Tmpl42, n) : n \in 1..2}
        \cup {<<"/", "s", "1", ".", "y">>}

PnInit ==
    /\ rels = [o \in {PKG} \cup AllParts |-> <<>>]
    /\ partname \in [AllParts -> PnNames]
    /\ phase = "new"
    /\ parts_map = {}
    /\ ret = [op |-> "init", exc |-> NoExc, val |-> None]
    /\ NoWalk
    /\ PlainObjects

PnNext ==
    \/ \E p \in AllParts : RelateTo(PKG, p, RT_SLIDE, FALSE)
    \/ \E tmpl \in Tmpls : NextPartname(tmpl)

SpecPartname == PnInit /\ [][PnNext]_vars

-----------------------------------------------------------------------------
(* SpecWalk: iter_parts() driving iter_rels(), one resumption of the         *)
(* walk_rels generators per step, on a graph built by relate_to              *)

MaxWalkRels == 4

\* the depth of nested generators Python allows before it raises
\* RecursionError: more than a walk of this many parts needs
RecursionLimit == Cardinality(AllParts) + 2

\* walk_rels recurses into the target of ref
walk_descends_no_visited(ref, visited) == ~is_external(ref.rel)

walk_descends(ref, visited) == ~is_external(ref.rel) /\ ref.rel.target \notin visited

\* a relate_to that builds the graph before the traversal starts
BuildRel(o, target, ext) ==
    /\ wpc = "idle"
    /\ rels' = [rels EXCEPT ![o] = relate_to(rels[o], target, RT_SLIDE, ext).c]
    /\ rels' # rels
    /\ UNCHANGED <<partname, phase, parts_map, ret, wvars, ovars>>

\* iter_parts() is called and asks iter_rels() for its first relationship
WalkStart ==
    /\ wpc = "idle"
    /\ wpc' = "walking"
    /\ wstack' = <<[lst |-> rel_refs(rels, PKG), i |-> 1]>>
    /\ wvisited' = {}
    /\ wout' = <<>>
    /\ wparts' = <<>>
    /\ UNCHANGED <<rels, partname, phase, parts_map, ret, ovars>>

\* the innermost walk_rels yields its next relationship, iter_parts runs
\* its loop body on it, and walk_rels runs on to its next loop round or
\* into the recursive walk_rels
WalkYield ==
    /\ wpc = "walking"
    /\ wstack # <<>>
    /\ LET depth == Len(wstack)
           top == wstack[depth]
       IN /\ top.i <= Len(top.lst)
          /\ LET ref == top.lst[top.i]
                 part == ref.rel.target
                 advanced == [wstack EXCEPT ![depth].i = top.i + 1]
             IN /\ wout' = Append(wout, ref)
                /\ wparts' = IF is_external(ref.rel) \/ part \in {wparts[k] : k \in DOMAIN wparts}
                             THEN wparts ELSE Append(wparts, part)
                /\ IF ~walk_descends(ref, wvisited)
                   THEN wstack' = advanced /\ UNCHANGED <<wvisited, wpc>>
                   ELSE IF depth >= RecursionLimit
                   THEN wpc' = "RecursionError" /\ UNCHANGED <<wstack, wvisited>>
                   ELSE /\ wvisited' = wvisited \cup {part}
                        /\ wstack' = Append(advanced, [lst |-> rel_refs(rels, part), i |-> 1])
                        /\ UNCHANGED wpc
    /\ UNCHANGED <<rels, partname, phase, parts_map, ret, ovars>>

\* the innermost walk_rels has no relationship left and returns; when it is
\* the outermost, iter_rels() and iter_parts() end
WalkReturn ==
    /\ wpc = "walking"
    /\ wstack # <<>>
    /\ wstack[Len(wstack)].i > Len(wstack[Len(wstack)].lst)
    /\ wstack' = SubSeq(wstack, 1, Len(wstack) - 1)
    /\ wpc' = IF Len(wstack) = 1 THEN "done" ELSE "walking"
    /\ UNCHANGED <<rels, partname, phase, parts_map, ret, wvisited, wout, wparts, ovars>>

WalkInit ==
    /\ rels = [o \in {PKG} \cup AllParts |-> <<>>]
    /\ partname = InitPartname
    /\ phase = "new"
    /\ parts_map = {}
    /\ ret = [op |-> "init", exc |-> NoExc, val |-> None]
    /\ NoWalk
    /\ PlainObjects

WalkNext ==
    \/ \E o \in {PKG} \cup AllParts, ext \in BOOLEAN :
         \E target \in IF ext THEN ExtRefs ELSE AllParts :
            BuildRel(o, target, ext) /\ SumLen(rels', {PKG} \cup AllParts) <= MaxWalkRels
    \/ WalkStart
    \/ WalkYield
    \/ WalkReturn

\* a for loop that consumes a generator keeps resuming it
SpecWalk == WalkInit /\ [][WalkNext]_vars /\ WF_vars(WalkYield \/ WalkReturn)

-----------------------------------------------------------------------------
(* SpecRef: target references.  target_partname and target_ref are           *)
(* lazyproperty: the value computed at the first read is stored in the       *)
(* relationship and every later read returns it.  `lazy` holds, per owner,   *)
(* the stored values as records [key, attr, val].  What an External          *)
(* relationship stores is its immutable _target and is not recorded.         *)

MaxRefRels == 2

Stored(L, key, attr) == {c \in L : c.key = key /\ c.attr = attr}

\* rel.target_partname for the relationship rel under key: [exc, val, lazy]
lazy_target_partname(L, key, rel, pn) ==
    IF Stored(L, key, "target_partname") # {}
    THEN [exc |-> NoExc, val |-> (CHOOSE c \in Stored(L, key, "target_partname") : TRUE).val,
          lazy |-> L]
    ELSE LET t == target_partname(rel, pn)
         IN IF t.exc # NoExc THEN [exc |-> t.exc, val |-> None, lazy |-> L]
            ELSE [exc |-> NoExc, val |-> t.val,
                  lazy |-> L \cup {[key |-> key, attr |-> "target_partname", val |-> t.val]}]

\* rel.target_ref for the relationship rel under key, base its _base_uri:
\* [exc, val, lazy]
lazy_target_ref(L, key, rel, pn, base) ==
    IF is_external(rel) THEN [exc |-> NoExc, val |-> rel.target, lazy |-> L]
    ELSE IF Stored(L, key, "target_ref") # {}
    THEN [exc |-> NoExc, val |-> (CHOOSE c \in Stored(L, key, "target_ref") : TRUE).val,
          lazy |-> L]
    ELSE LET t == lazy_target_partname(L, key, rel, pn)
             ref == relative_ref(t.val, base)
         IN [exc |-> NoExc, val |-> ref,
             lazy |-> t.lazy \cup {[key |-> key, attr |-> "target_ref", val |-> ref]}]

\* the xml of a collection without its External relationships
RECURSIVE xml_from_internal_only(_, _, _, _, _)
xml_from_internal_only(L, d, i, pn, base) ==
    IF i > Len(d) THEN [val |-> <<>>, lazy |-> L]
    ELSE IF is_external(d[i].rel) THEN xml_from_internal_only(L, d, i + 1, pn, base)
    ELSE LET rel == d[i].rel
             r == lazy_target_ref(L, d[i].key, rel, pn, base)
             rest == xml_from_internal_only(r.lazy, d, i + 1, pn, base)
         IN [val |-> <<[rId |-> rel.rId, reltype |-> rel.reltype, target_ref |-> r.val,
                        is_external |-> FALSE]>> \o rest.val,
             lazy |-> rest.lazy]

\* the loop of _Relationships.xml from entry i on: the elements add_rel is
\* given, and what the relationships have stored afterwards
RECURSIVE xml_from(_, _, _, _, _)
xml_from(L, d, i, pn, base) ==
    IF i > Len(d) THEN [val |-> <<>>, lazy |-> L]
    ELSE LET rel == d[i].rel
             r == lazy_target_ref(L, d[i].key, rel, pn, base)
             rest == xml_from(r.lazy, d, i + 1, pn, base)
         IN [val |-> <<[rId |-> rel.rId, reltype |-> rel.reltype, target_ref |-> r.val,
                        is_external |-> is_external(rel)]>> \o rest.val,
             lazy |-> rest.lazy]

xml(L, d, pn, base) == xml_from(L, d, 1, pn, base)

\* the base URI of the collection of owner o: the one it was created with,
\* or, when it is created now, the directory of the owner's partname
rels_base(o) ==
    IF base_uri[o] # None THEN base_uri[o]
    ELSE IF o = PKG THEN baseURI(PACKAGE_URI) ELSE baseURI(partname[o])

RefCall(o, op, r, L) ==
    /\ InUse
    /\ rels' = [rels EXCEPT ![o] = r.c]
    /\ base_uri' = [base_uri EXCEPT ![o] = rels_base(o)]
    /\ lazy' = [lazy EXCEPT ![o] = L]
    /\ ret' = Ret(op, r)
    /\ phase' = "live"
    /\ UNCHANGED <<partname, parts_map, wvars, part_type_for, part_obj, reader>>

RefRelateTo(o, target, reltype, ext) ==
    RefCall(o, "relate_to", relate_to(rels[o], target, reltype, ext), lazy[o])

\* part.target_ref(rId), self._rels[rId].target_ref, on the collection d:
\* [c, exc, val, lazy]
Part_target_ref(L, d, rId, pn, base) ==
    LET g == getitem(d, rId)
        r == lazy_target_ref(L, rId, g.val, pn, base)
    IN IF g.exc # NoExc THEN [c |-> d, exc |-> g.exc, val |-> None, lazy |-> L]
       ELSE [c |-> d, exc |-> r.exc, val |-> r.val, lazy |-> r.lazy]

TargetRef(p, rId) ==
    LET r == Part_target_ref(lazy[p], rels[p], rId, partname, rels_base(p))
    IN RefCall(p, "target_ref", r, r.lazy)

\* the xml of the collection of owner o, as the package writer reads it
Xml(o) ==
    LET x == xml(lazy[o], rels[o], partname, rels_base(o))
    IN RefCall(o, "xml", Returned(rels[o], x.val), x.lazy)

\* part.partname = pn; is_PackURI: whether pn is a PackURI instance
SetPartname(p, pn, is_PackURI) ==
    /\ InUse
    /\ partname' = IF is_PackURI THEN [partname EXCEPT ![p] = pn] ELSE partname
    /\ ret' = [op |-> "partname", exc |-> IF is_PackURI THEN NoExc ELSE "TypeError", val |-> None]
    /\ phase' = "live"
    /\ UNCHANGED <<rels, parts_map, wvars, ovars>>

\* the partnames the parts are constructed with and are given later
RefNames == {<<"/", "a", "/", "l">>, <<"/", "b", "/", "l">>}
RefPartname == [slide |-> <<"/", "a", "/", "s">>, layout |-> <<"/", "a", "/", "l">>,
                master |-> <<"/", "m">>]

\* the part every Internal relationship of this specification targets
RefTargetsOf(ext) == IF ext THEN ExtRefs ELSE {"layout"}

RefInit ==
    /\ rels = [o \in Owners |-> <<>>]
    /\ partname = RefPartname
    /\ phase = "new"
    /\ parts_map = {}
    /\ ret = [op |-> "init", exc |-> NoExc, val |-> None]
    /\ NoWalk
    /\ PlainObjects

RefNext ==
    \/ \E o \in Owners, ext \in BOOLEAN :
         \E target \in RefTargetsOf(ext) :
            RefRelateTo(o, target, RT_SLIDE, ext) /\ TotalRels(rels') <= MaxRefRels
    \/ \E p \in Parts, rId \in GraphKeys : TargetRef(p, rId)
    \/ \E o \in Owners : Xml(o)
    \/ \E p \in Parts, pn \in RefNames, is_PackURI \in BOOLEAN : SetPartname(p, pn, is_PackURI)

SpecRef == RefInit /\ [][RefNext]_vars

-----------------------------------------------------------------------------
(* SpecLoad: open() on what one reader delivers, pass by pass, then the      *)
(* package in use.  `reader` holds what the reader has still to deliver:     *)
(* sparts, srels, the bytes of the root rels item and the relationship       *)
(* elements in them, with src what it held when it was opened.  Client code  *)
(* registers part classes with PartFactory when the library is set up,       *)
(* before a package is opened.                                               *)

\* the most records iter_srels() delivers
MaxSRels == 2
\* the most relationship elements the root rels item holds
MaxRootRels == 1
\* the most relationships the graph holds after calls on the loaded package
MaxLoadRels == 2

LoadPartname == [slide |-> <<"/", "a", "/", "s">>, layout |-> <<"/", "b", "/", "l">>,
                 master |-> <<"/", "m">>]

\* open() handing out the package whatever _load raised
open_returns_anyway(exc) ==
    [phase |-> "live", ret |-> [op |-> "open", exc |-> exc, val |-> None]]

\* an exception raised inside _load leaves open(): the caller gets the
\* exception and no package
open_raises(exc) == [phase |-> "failed", ret |-> [op |-> "open", exc |-> exc, val |-> None]]

\* PartFactory.part_type_for[ct] = cls, by client code
Register(ct, cls) ==
    /\ phase = "new"
    /\ part_type_for' = {en \in part_type_for : en.ct # ct} \cup {[ct |-> ct, cls |-> cls]}
    /\ ret' = [op |-> "register", exc |-> NoExc, val |-> None]
    /\ UNCHANGED <<rels, partname, phase, parts_map, wvars, base_uri, lazy, part_obj, reader>>

\* OpcPackage.open(pkg_file): the package is constructed and the reader opened
ReadOpen(content) ==
    /\ phase = "new"
    /\ phase' = "unmarshal_parts"
    /\ reader' = [sparts |-> content.sparts, srels |-> content.srels,
                  root_blob |-> content.root_blob, root |-> content.root, src |-> content]
    /\ ret' = [op |-> "_load", exc |-> NoExc, val |-> None]
    /\ UNCHANGED <<rels, partname, parts_map, wvars, base_uri, lazy, part_type_for, part_obj>>

\* the load fails with exc
ReadFails(exc) ==
    /\ phase' = open_raises(exc).phase
    /\ ret' = open_raises(exc).ret
    /\ parts_map' = {}
    /\ reader' = None
    /\ UNCHANGED <<rels, partname, wvars, base_uri, lazy, part_type_for, part_obj>>

\* one round of the loop of Unmarshaller._unmarshal_parts
ReadPart ==
    /\ phase = "unmarshal_parts"
    /\ reader.sparts # <<>>
    /\ LET spart == Head(reader.sparts)
           f == PartFactory(part_type_for, spart.content_type, spart.blob)
       IN IF f.exc # NoExc THEN ReadFails(f.exc)
          ELSE /\ part_obj' = [part_obj EXCEPT ![spart.part] = f.val]
               /\ part_type_for' = f.reg
               /\ parts_map' = parts_map \cup {spart.part}
               /\ reader' = [reader EXCEPT !.sparts = Tail(reader.sparts)]
               /\ ret' = [op |-> "PartFactory", exc |-> NoExc, val |-> spart.part]
               /\ UNCHANGED <<rels, partname, phase, wvars, base_uri, lazy>>

\* iter_sparts() is exhausted
ReadPartsDone ==
    /\ phase = "unmarshal_parts"
    /\ reader.sparts = <<>>
    /\ phase' = "unmarshal"
    /\ ret' = [op |-> "_unmarshal_parts", exc |-> NoExc, val |-> None]
    /\ UNCHANGED <<rels, partname, parts_map, wvars, ovars>>

\* one round of the loop of Unmarshaller._unmarshal_relationships
ReadSRel ==
    /\ phase = "unmarshal"
    /\ reader.srels # <<>>
    /\ LET rec == Head(reader.srels)
           r == unmarshal_relationship(rels, parts_map, rec.source_uri, rec.srel)
       IN IF r.exc # NoExc THEN ReadFails(r.exc)
          ELSE /\ rels' = r.g
               /\ reader' = [reader EXCEPT !.srels = Tail(reader.srels)]
               /\ ret' = [op |-> "_unmarshal_relationships", exc |-> NoExc, val |-> rec.srel.rId]
               /\ UNCHANGED <<partname, phase, parts_map, wvars, base_uri, lazy,
                              part_type_for, part_obj>>

\* iter_srels() is exhausted: _load parses the root rels item, builds the
\* part map from package.iter_parts(), and load_from_xml clears the
\* package's collection
ReadRoot ==
    /\ phase = "unmarshal"
    /\ reader.srels = <<>>
    /\ IF parse_xml(reader.root_blob).exc # NoExc
       THEN ReadFails(parse_xml(reader.root_blob).exc)
       ELSE /\ phase' = "load_from_xml"
            /\ parts_map' = {iter_parts(rels)[i] : i \in DOMAIN iter_parts(rels)}
            /\ rels' = [rels EXCEPT ![PKG] = <<>>]
            /\ ret' = [op |-> "load_from_xml", exc |-> NoExc, val |-> None]
            /\ UNCHANGED <<partname, wvars, ovars>>

\* one element of the root rels item through load_from_xml
ReadRootRel ==
    /\ phase = "load_from_xml"
    /\ reader.root # <<>>
    /\ LET r == load_xml_rel(rels[PKG], PACKAGE_URI, Head(reader.root), parts_map)
       IN /\ rels' = [rels EXCEPT ![PKG] = r.c]
          /\ ret' = Ret("load_from_xml", r)
    /\ reader' = [reader EXCEPT !.root = Tail(reader.root)]
    /\ UNCHANGED <<partname, phase, parts_map, wvars, base_uri, lazy, part_type_for, part_obj>>

\* relationship_lst is exhausted: _load returns the package, open() returns it
ReadEnd ==
    /\ phase = "load_from_xml"
    /\ reader.root = <<>>
    /\ phase' = "live"
    /\ parts_map' = {}
    /\ reader' = None
    /\ ret' = [op |-> "open", exc |-> NoExc, val |-> None]
    /\ UNCHANGED <<rels, partname, wvars, base_uri, lazy, part_type_for, part_obj>>

\* package.save(pkg_file): what PackageWriter.write is given
Save ==
    Call(PKG, "save", Returned(rels[PKG], iter_parts(rels)))

\* the loop of Unmarshaller._unmarshal_parts as a whole: [exc, po, pm]
RECURSIVE unmarshal_parts(_, _, _, _)
unmarshal_parts(reg, sparts, po, pm) ==
    IF sparts = <<>> THEN [exc |-> NoExc, po |-> po, pm |-> pm]
    ELSE LET spart == Head(sparts)
             f == PartFactory(reg, spart.content_type, spart.blob)
         IN IF f.exc # NoExc THEN [exc |-> f.exc, po |-> po, pm |-> pm]
            ELSE unmarshal_parts(f.reg, Tail(sparts), [po EXCEPT ![spart.part] = f.val],
                                 pm \cup {spart.part})

\* the loop of Unmarshaller._unmarshal_relationships as a whole: [g, exc]
RECURSIVE unmarshal_relationships(_, _, _)
unmarshal_relationships(g, pm, srels) ==
    IF srels = <<>> THEN [g |-> g, exc |-> NoExc]
    ELSE LET r == unmarshal_relationship(g, pm, Head(srels).source_uri, Head(srels).srel)
         IN IF r.exc # NoExc THEN r ELSE unmarshal_relationships(r.g, pm, Tail(srels))

\* OpcPackage.open on a reader holding content, reg being the registry:
\* [exc, g, po]
load(reg, content) ==
    LET none == [exc |-> NoExc, g |-> [o \in Owners |-> <<>>], po |-> [q \in AllParts |-> NoPart]]
        ps == unmarshal_parts(reg, content.sparts, none.po, {})
        rs == unmarshal_relationships(none.g, ps.pm, content.srels)
        pm == {iter_parts(rs.g)[i] : i \in DOMAIN iter_parts(rs.g)}
    IN IF ps.exc # NoExc THEN [none EXCEPT !.exc = ps.exc]
       ELSE IF rs.exc # NoExc THEN [none EXCEPT !.exc = rs.exc]
       ELSE IF parse_xml(content.root_blob).exc # NoExc
       THEN [none EXCEPT !.exc = parse_xml(content.root_blob).exc]
       ELSE [exc |-> NoExc, po |-> ps.po,
             g |-> [rs.g EXCEPT ![PKG] = load_from_xml(rs.g[PKG], PACKAGE_URI, content.root, pm)]]

\* the records a reader delivers for the rels item written from the
\* elements rel_elms of the collection of source_uri
RECURSIVE written_srels(_, _)
written_srels(source_uri, rel_elms) ==
    IF rel_elms = <<>> THEN <<>>
    ELSE LET x == Head(rel_elms)
         IN <<[source_uri |-> source_uri,
               srel |-> [rId |-> x.rId, reltype |-> x.reltype, is_external |-> x.is_external,
                         target_ref |-> IF x.is_external THEN x.target_ref ELSE None,
                         target_partname |->
                             IF x.is_external THEN None
                             ELSE from_rel_ref(baseURI(source_uri), x.target_ref)]]>>
            \o written_srels(source_uri, Tail(rel_elms))

\* the relationship elements parse_xml gives for the root rels item written
\* from the elements rel_elms
written_root(rel_elms) ==
    [i \in DOMAIN rel_elms |->
        [rId |-> rel_elms[i].rId, reltype |-> rel_elms[i].reltype,
         targetMode |-> IF rel_elms[i].is_external THEN EXTERNAL ELSE INTERNAL,
         target_ref |-> rel_elms[i].target_ref]]

\* the records for the parts ps[i..]
RECURSIVE written_part_srels(_, _, _)
written_part_srels(g, ps, i) ==
    IF i > Len(ps) THEN <<>>
    ELSE written_srels(partname[ps[i]],
                       xml(lazy[ps[i]], g[ps[i]], partname, rels_base(ps[i])).val)
            \o written_part_srels(g, ps, i + 1)

\* what a reader delivers of the package PackageWriter.write makes of what
\* save() hands it: the package's collection and tuple(iter_parts())
saved(g, po) ==
    LET ps == iter_parts(g)
        pkg_xml == xml(lazy[PKG], g[PKG], partname, rels_base(PKG)).val
    IN [sparts |-> [i \in DOMAIN ps |->
                       [part |-> ps[i], partname |-> partname[ps[i]],
                        content_type |-> po[ps[i]].content_type, blob |-> blob_of(po[ps[i]])]],
        srels |-> written_srels(PACKAGE_URI, pkg_xml) \o written_part_srels(g, ps, 1),
        root_blob |-> CanonicalXmlBlob,
        root |-> written_root(pkg_xml)]

\* what the reader may deliver
LoadSParts ==
    {<<[part |-> "slide", partname |-> LoadPartname["slide"], content_type |-> CT_XML,
        blob |-> b],
       [part |-> "layout", partname |-> LoadPartname["layout"], content_type |-> c[1],
        blob |-> c[2]]>> :
        b \in {XmlBlob, BadXmlBlob}, c \in {<<CT_XML, XmlBlob>>, <<CT_BIN, BinBlob>>}}
LoadSRel ==
    [source_uri : {PACKAGE_URI},
     srel : [rId : {RIdStr(1)}, reltype : {RT_SLIDE}, is_external : {FALSE},
             target_partname : {LoadPartname["slide"]}, target_ref : {None}]]
    \cup [source_uri : {LoadPartname["slide"]},
           srel : [rId : {RIdStr(1)}, reltype : {RT_SLIDE}, is_external : {FALSE},
                   target_partname : {LoadPartname["layout"], NullPartname},
                   target_ref : {None}]
                  \cup [rId : {RIdStr(1)}, reltype : {RT_SLIDE}, is_external : {TRUE},
                        target_partname : {None}, target_ref : ExtRefs]]
LoadRelElm ==
    [rId : {RIdStr(1)}, reltype : {RT_SLIDE}, targetMode : {INTERNAL},
     target_ref : {Tail(LoadPartname["slide"]), Tail(NullPartname)}]
    \cup [rId : {RIdStr(1)}, reltype : {RT_SLIDE}, targetMode : {EXTERNAL},
          target_ref : ExtRefs]
\* a package of n srels, and of k relationship elements in a root rels item
\* of the bytes root_blob
ReaderContent(sparts, srels, n, root_blob, root, k) ==
    [sparts |-> sparts, srels |-> SubSeq(srels, 1, n), root_blob |-> root_blob,
     root |-> IF parse_xml(root_blob).exc # NoExc THEN <<>> ELSE SubSeq(root, 1, k)]

LoadInit ==
    /\ rels = [o \in Owners |-> <<>>]
    /\ partname = LoadPartname
    /\ phase = "new"
    /\ parts_map = {}
    /\ ret = [op |-> "init", exc |-> NoExc, val |-> None]
    /\ NoWalk
    /\ base_uri = [o \in {PKG} \cup AllParts |-> None]
    /\ lazy = [o \in {PKG} \cup AllParts |-> {}]
    /\ part_type_for = {}
    /\ part_obj = [p \in AllParts |-> NoPart]
    /\ reader = None

LoadNext ==
    \/ Register(CT_XML, "XmlPart")
    \/ /\ phase = "new"
       /\ \E sparts \in LoadSParts, srels \in [1..MaxSRels -> LoadSRel], n \in 0..MaxSRels,
             root_blob \in {XmlBlob, BadXmlBlob}, root \in [1..MaxRootRels -> LoadRelElm],
             k \in 0..MaxRootRels :
               ReadOpen(ReaderContent(sparts, srels, n, root_blob, root, k))
    \/ ReadPart
    \/ ReadPartsDone
    \/ ReadSRel
    \/ ReadRoot
    \/ ReadRootRel
    \/ ReadEnd
    \/ /\ phase = "live"
       /\ \/ \E o \in Owners, ext \in BOOLEAN :
               \E target \in TargetsOf(ext) :
                  RelateTo(o, target, RT_SLIDE, ext) /\ TotalRels(rels') <= MaxLoadRels
          \/ \E o \in Owners, ext \in BOOLEAN, rId \in GraphKeys :
               \E target \in TargetsOf(ext) :
                  LoadRel(o, RT_SLIDE, target, rId, ext) /\ TotalRels(rels') <= MaxLoadRels
          \/ \E p \in Parts, rId \in GraphKeys : DropRel(p, rId, <<>>)
          \/ IterParts
          \/ Save

SpecLoad == LoadInit /\ [][LoadNext]_vars

-----------------------------------------------------------------------------
(* Properties of Spec *)

SeqToSet(q) == {q[i] : i \in DOMAIN q}
NoDuplicates(q) == \A i, j \in DOMAIN q : q[i] = q[j] => i = j

\* the targets of the Internal relationships of a collection
InternalTargets(d) == {d[i].rel.target : i \in {j \in DOMAIN d : d[j].rel.target_mode = INTERNAL}}

\* the least set of parts holding the targets of the package's Internal
\* relationships and of those of its members
RECURSIVE ReachClosure(_, _)
ReachClosure(g, R) ==
    LET more == R \cup UNION {InternalTargets(g[p]) : p \in R}
    IN IF more = R THEN R ELSE ReachClosure(g, more)

ReachableParts(g) == ReachClosure(g, InternalTargets(g[PKG]))

\* the relationships the reachable part of the graph holds
ReachableRels(g) ==
    UNION {SeqToSet(rel_refs(g, o)) : o \in {PKG} \cup ReachableParts(g)}

HasCycle(g) == \E p, q \in ReachableParts(g) :
    p # q /\ q \in InternalTargets(g[p]) /\ p \in InternalTargets(g[q])
HasSelfLoop(g) == \E p \in ReachableParts(g) : p \in InternalTargets(g[p])
HasSharedTarget(g) == \E a, b \in ReachableRels(g) :
    a # b /\ ~is_external(a.rel) /\ ~is_external(b.rel) /\ a.rel.target = b.rel.target

\* C1: iter_parts() yields exactly the parts reachable from the package's
\* relationships through Internal relationships, each of them once.
C1_IterPartsReachableOnce ==
    ret.op = "iter_parts" =>
        /\ SeqToSet(ret.val) = ReachableParts(rels)
        /\ NoDuplicates(ret.val)

C1_Witness ==
    /\ ret.op = "iter_parts"
    /\ HasCycle(rels)
    /\ HasSharedTarget(rels)
    /\ Len(ret.val) = 2

C1_WitnessSelfLoop == ret.op = "iter_parts" /\ HasSelfLoop(rels) /\ Len(ret.val) = 1

\* C2: iter_rels() yields every relationship of the package's collection and
\* of the collection of every reachable part exactly once and nothing else;
\* an External relationship is yielded and nothing is reached through it.
C2_IterRelsEveryRelOnce ==
    ret.op = "iter_rels" =>
        /\ SeqToSet(ret.val) = ReachableRels(rels)
        /\ NoDuplicates(ret.val)
        /\ \A i \in DOMAIN ret.val :
              ret.val[i].owner \in {PKG} \cup ReachableParts(rels)

C2_Witness ==
    /\ ret.op = "iter_rels"
    /\ HasSelfLoop(rels) \/ HasCycle(rels)
    /\ HasSharedTarget(rels)
    /\ \E i \in DOMAIN ret.val : is_external(ret.val[i].rel) /\ ret.val[i].owner # PKG

\* C9: every Internal relationship iter_rels() yields has a target that
\* iter_parts() yields, whatever calls built the graph.
C9_InternalTargetsYielded ==
    \A i \in DOMAIN iter_rels(rels) :
        ~is_external(iter_rels(rels)[i].rel) =>
            iter_rels(rels)[i].rel.target \in SeqToSet(iter_parts(rels))

C9_Witness ==
    /\ phase = "live"
    /\ ret.op = "drop_rel" /\ ret.exc = NoExc
    /\ \E i \in DOMAIN iter_rels(rels) :
          /\ iter_rels(rels)[i].owner # PKG
          /\ ~is_external(iter_rels(rels)[i].rel)
          /\ iter_rels(rels)[i].rel.target \in SeqToSet(iter_parts(rels))

\* C3 (as claimed): a load whose reader delivers an Internal record with a
\* target partname no part has does not raise.
C3_LoadToleratesDanglingRecord ==
    ~(phase = "failed" /\ ret.op = "open" /\ ret.exc = "KeyError")

\* what the code does tolerate: a dangling record of the root
\* relationships XML is skipped by load_from_xml and the load completes
C3_RootXmlRecordSkipped ==
    (phase = "load_from_xml" /\ ret.op = "load_from_xml" /\ ret.val = "skipped")
        => ENABLED OpenEnd

-----------------------------------------------------------------------------
(* Properties of SpecRels *)

\* the least n >= 1 for which "rId%d" % n is no key of d
SmallestFreeNumber(d) ==
    CHOOSE n \in 1..(Len(d) + 1) :
        /\ RIdStr(n) \notin dict_keys(d)
        /\ \A m \in 1..(n - 1) : RIdStr(m) \in dict_keys(d)

\* C4 (as claimed): _next_rId is "rId%d" % n for the least n >= 1 whose id
\* is no key of the collection.
C4_NextRIdIsSmallestFree ==
    _next_rId(rels[PKG]) = RIdStr(SmallestFreeNumber(rels[PKG]))

\* what the downward search does return: an id that is no key, numbered at
\* most len + 1 (not checked as a claim of its own here)
C4_NextRIdIsFree ==
    /\ _next_rId(rels[PKG]) \notin dict_keys(rels[PKG])
    /\ \E n \in 1..(Len(rels[PKG]) + 1) : _next_rId(rels[PKG]) = RIdStr(n)

\* C7: get_or_add called twice in a row with the same arguments returns the
\* same rId both times and the second call leaves the collection as it is;
\* likewise get_or_add_ext_rel.
C7_GetOrAddTwice ==
    /\ \A reltype \in RelTypes, target \in Parts :
          LET first == get_or_add(rels[PKG], reltype, target)
              second == get_or_add(first.c, reltype, target)
          IN second.val = first.val /\ second.c = first.c
    /\ \A reltype \in RelTypes, target \in ExtRefs :
          LET first == get_or_add_ext_rel(rels[PKG], reltype, target)
              second == get_or_add_ext_rel(first.c, reltype, target)
          IN second.val = first.val /\ second.c = first.c

\* a relate_to has just added relationship ret.val to a collection holding
\* another one, and the same call again returns ret.val and adds nothing
C7_Witness ==
    /\ ret.op = "relate_to"
    /\ Len(rels[PKG]) = 2
    /\ rels[PKG][2].key = ret.val
    /\ LET rel == rels[PKG][2].rel
       IN relate_to(rels[PKG], rel.target, rel.reltype, is_external(rel))
            = Returned(rels[PKG], ret.val)

\* the entries of d a request (target, reltype, ext) matches
Matching(d, target, reltype, ext) ==
    {i \in DOMAIN d :
        /\ d[i].rel.reltype = reltype
        /\ d[i].rel.target = target
        /\ d[i].rel.target_mode = IF ext THEN EXTERNAL ELSE INTERNAL}

\* C8: relate_to returns the rId of an existing relationship only when that
\* relationship has the reltype, target and mode asked for, and adds a
\* relationship (with exactly those) only when none has.
C8_RelateToMatchesAllThree ==
    \A ext \in BOOLEAN, reltype \in RelTypes :
        \A target \in TargetsOf(ext) :
            LET d == rels[PKG]
                r == relate_to(d, target, reltype, ext)
                hits == Matching(d, target, reltype, ext)
            IN IF hits # {}
               THEN r.c = d /\ \E i \in hits : d[i].key = r.val
               ELSE /\ Len(r.c) = Len(d) + 1
                    /\ \A i \in DOMAIN d : r.c[i] = d[i]
                    /\ r.c[Len(r.c)] =
                         [key |-> r.val,
                          rel |-> Relationship(r.val, reltype,
                                     IF ext THEN EXTERNAL ELSE INTERNAL, target)]

\* relate_to has just added a relationship although the collection held one
\* of the same reltype in the other mode
C8_Witness ==
    /\ ret.op = "relate_to"
    /\ Len(rels[PKG]) = 2
    /\ rels[PKG][2].key = ret.val
    /\ rels[PKG][1].rel.reltype = rels[PKG][2].rel.reltype
    /\ rels[PKG][1].rel.target_mode # rels[PKG][2].rel.target_mode

-----------------------------------------------------------------------------
(* Properties of SpecPartname *)

\* the partnames of the package's parts that start with the template's prefix
Sharing(tmpl) ==
    {partname[p] : p \in {q \in ReachableParts(rels) :
                            StartsWith(partname[q], template_prefix(tmpl))}}

\* the numbers 1..n0 whose candidate name is unused, n0 = |Sharing(tmpl)|
Gaps(tmpl) ==
    {n \in 1..Cardinality(Sharing(tmpl)) : StrFormat(tmpl, n) \notin Sharing(tmpl)}

SmallestGapOrNext(tmpl) ==
    IF Gaps(tmpl) # {} THEN CHOOSE n \in Gaps(tmpl) : \A m \in Gaps(tmpl) : n <= m
    ELSE Cardinality(Sharing(tmpl)) + 1

\* C5 (as claimed): next_partname(tmpl) is tmpl % n for the least unused n
\* of [1, n0] when there is one, and for n0 + 1 otherwise.
C5_SmallestGapOrNext ==
    \A tmpl \in Tmpls :
        next_partname(rels, partname, tmpl) =
            [exc |-> NoExc, val |-> StrFormat(tmpl, SmallestGapOrNext(tmpl))]

\* the numbers k of the partnames tmpl % k among those sharing the prefix
NumbersUsed(tmpl) ==
    {k \in 1..(Cardinality(Sharing(tmpl)) + 1) : StrFormat(tmpl, k) \in Sharing(tmpl)}

\* the partnames sharing the prefix are exactly tmpl % k for k in a set S
\* that is a subset of 1..|S|+1
DenseButOne(tmpl) ==
    Sharing(tmpl) = {StrFormat(tmpl, k) : k \in NumbersUsed(tmpl)}

C20_NextPartnameFreeNoError ==
    \A tmpl \in Tmpls :
        LET r == next_partname(rels, partname, tmpl)
        IN /\ r.exc = NoExc
           /\ r.val \notin {partname[p] : p \in SeqToSet(iter_parts(rels))}

\* next_partname has answered with number 4 a package whose three parts
\* carry the slide partnames 1, 2 and 3: every candidate but the first is taken
C20_Witness ==
    /\ ret.op = "next_partname" /\ ret.exc = NoExc
    /\ ret.val = StrFormat(SlideTmpl, 4)
    /\ {partname[p] : p \in SeqToSet(iter_parts(rels))} = {StrFormat(SlideTmpl, k) : k \in 1..3}

-----------------------------------------------------------------------------
(* Properties of SpecWalk *)

\* C10: iter_rels() and iter_parts() terminate on every graph, cyclic or not.
C10_WalkTerminates == (wpc = "walking") ~> (wpc = "done")

\* the traversal has ended on the ring package -> slide -> layout -> master
\* -> slide, having yielded its four relationships and three parts
C10_Witness ==
    /\ wpc = "done"
    /\ "slide" \in InternalTargets(rels[PKG])
    /\ "layout" \in InternalTargets(rels["slide"])
    /\ "master" \in InternalTargets(rels["layout"])
    /\ "slide" \in InternalTargets(rels["master"])
    /\ Len(wout) = 4
    /\ Len(wparts) = 3

\* rel at position i of out is the first of out that targets its part
FirstTargeting(out, i) ==
    /\ ~is_external(out[i].rel)
    /\ \A h \in 1..(i - 1) : is_external(out[h].rel) \/ out[h].rel.target # out[i].rel.target

\* the parts first targeted at the positions from..(to - 1) of out
Discovered(out, from, to) ==
    {out[h].rel.target : h \in {x \in from..(to - 1) : FirstTargeting(out, x)}}

\* the positions after i of relationships of the collection that owns out[i]
LaterOfOwner(out, i) == {j \in (i + 1)..Len(out) : out[j].owner = out[i].owner}

\* C22: iter_rels() is a depth-first pre-order traversal: every relationship
\* owned by a part is yielded after some Internal relationship targeting that
\* part; when a relationship is the first one yielded that targets a part,
\* all relationships of that part, and of the parts first discovered through
\* them, are yielded before the next relationship of the same owning
\* collection; and the relationships of a part reached again through another
\* path are not yielded again.
C22_IterRelsDepthFirstPreOrder ==
    LET out == iter_rels(rels)
    IN /\ \A j \in DOMAIN out :
             (out[j].owner # PKG) =>
                \E i \in 1..(j - 1) :
                    ~is_external(out[i].rel) /\ out[i].rel.target = out[j].owner
       /\ \A i \in DOMAIN out :
             (FirstTargeting(out, i) /\ LaterOfOwner(out, i) # {}) =>
                LET next == CHOOSE j \in LaterOfOwner(out, i) :
                                \A k \in LaterOfOwner(out, i) : j <= k
                IN \A q \in Discovered(out, i, next) :
                      \A k \in DOMAIN rels[q] :
                         \E j \in (i + 1)..(next - 1) : out[j] = rel_refs(rels, q)[k]
       /\ \A i, j \in DOMAIN out :
             (out[i].owner = out[j].owner /\ out[i].key = out[j].key) => i = j

\* the package relates to the slide and then to the layout, the slide to
\* the master and the master to the layout: the layout is first reached
\* through the master, and reached again from the package
C22_Witness ==
    /\ Len(rels[PKG]) = 2
    /\ rels[PKG][1].rel.target = "slide" /\ rels[PKG][2].rel.target = "layout"
    /\ "master" \in InternalTargets(rels["slide"])
    /\ "layout" \in InternalTargets(rels["master"])
    /\ wpc = "done"
    /\ wout = iter_rels(rels)

\* the stepped traversal yields what iter_rels and iter_parts compute
WalkAgreesWithIterRels ==
    wpc = "done" => wout = iter_rels(rels) /\ wparts = iter_parts(rels)

-----------------------------------------------------------------------------
(* Properties of Spec: the calls on one owner's collection *)

\* the entries of d under keys other than k, in dict order
OtherEntries(d, k) == SelectSeq(d, LAMBDA en : en.key # k)

DropKeys == {RIdStr(1), RIdStr(2)}

\* C11: drop_rel(rId) removes rId from the part's collection when the part's
\* XML refers to rId at most once and leaves the collection as it is when it
\* refers to rId twice or more; the other relationships stay as they are.
C11_DropRelUnderTwoReferences ==
    \A p \in Parts, rId \in DropKeys, rIds \in XmlRIdLists :
        LET d == rels[p]
            r == drop_rel(d, rId, _rel_ref_count(rIds, rId))
        IN /\ (_rel_ref_count(rIds, rId) < 2) =>
                (/\ rId \notin dict_keys(r.c)
                 /\ (rId \in dict_keys(d)) => (r.exc = NoExc /\ Len(r.c) = Len(d) - 1))
           /\ (_rel_ref_count(rIds, rId) >= 2) => (r.c = d /\ r.exc = NoExc)
           /\ OtherEntries(r.c, rId) = OtherEntries(d, rId)

\* a drop_rel has returned on a part that still holds rId1 next to another
\* relationship: the call was made with two references or more
C11_Witness ==
    /\ ret.op = "drop_rel" /\ ret.exc = NoExc
    /\ \E p \in Parts : {RIdStr(1), RIdStr(2)} \subseteq dict_keys(rels[p])

\* a drop_rel has removed rId1 from a part and left its rId2
C11_WitnessRemoved ==
    /\ ret.op = "drop_rel" /\ ret.exc = NoExc
    /\ \E p \in Parts : dict_keys(rels[p]) = {RIdStr(2)}

\* how many relationships of reltype the collection d holds
CountOfReltype(d, reltype) == Cardinality({i \in DOMAIN d : d[i].rel.reltype = reltype})

\* C12: part_related_by(reltype) raises KeyError when the owner's collection
\* holds no relationship of reltype and ValueError when it holds more than
\* one, and leaves the collection as it is.
C12_PartRelatedByNotFoundAmbiguous ==
    \A o \in Owners, reltype \in RelTypes :
        LET r == part_related_by(rels[o], reltype)
        IN /\ (CountOfReltype(rels[o], reltype) = 0) => (r.exc = "KeyError" /\ r.c = rels[o])
           /\ (CountOfReltype(rels[o], reltype) > 1) => (r.exc = "ValueError" /\ r.c = rels[o])

\* part_related_by has raised ValueError on a graph no collection of which
\* holds an External relationship: some owner holds two of the type
C12_Witness ==
    /\ ret.op = "part_related_by" /\ ret.exc = "ValueError"
    /\ \A o \in Owners : \A i \in DOMAIN rels[o] : ~is_external(rels[o][i].rel)
    /\ \E o \in Owners : CountOfReltype(rels[o], RT_SLIDE) > 1

\* the External relationships that rels holds for owner o, as references
ExternalRefs(o) == {ref \in SeqToSet(rel_refs(rels, o)) : is_external(ref.rel)}

\* C16: reading target_part or target_partname of an External relationship,
\* or related_part(rId) for the rId of one, raises ValueError and returns no
\* value; the collection stays as it is.
C16_ExternalTargetPartRaises ==
    \A o \in Owners : \A ref \in ExternalRefs(o) :
        /\ target_part(ref.rel).exc = "ValueError" /\ target_part(ref.rel).val = None
        /\ target_partname(ref.rel, partname).exc = "ValueError"
        /\ target_partname(ref.rel, partname).val = None
        /\ related_part(rels[o], ref.key) = Raised(rels[o], "ValueError")

\* related_part(rId1) has raised ValueError: the only parts holding an rId1
\* hold an External relationship under it
C16_Witness ==
    /\ ret.op = "related_part" /\ ret.exc = "ValueError"
    /\ \A p \in Parts : RIdStr(1) \in dict_keys(rels[p]) => is_external(dict_get(rels[p], RIdStr(1)))

\* C18 (as claimed): with exactly one relationship of reltype in the
\* collection, part_with_reltype(reltype) returns its target part; it fails
\* only when the collection holds none or more than one of the type.
C18_PartWithReltypeFailsOnlyOnCount ==
    \A o \in Owners, reltype \in RelTypes :
        LET r == part_with_reltype(rels[o], reltype)
        IN /\ (CountOfReltype(rels[o], reltype) = 1) =>
                (r.exc = NoExc /\ r.val = _rels_by_reltype(rels[o], reltype)[1].target)
           /\ (r.exc # NoExc) => (CountOfReltype(rels[o], reltype) # 1)

\* C18 (amended): with exactly one relationship of reltype, part_with_reltype
\* returns its target part when that relationship is Internal and raises
\* ValueError when it is External; otherwise it fails only on none (KeyError)
\* or more than one (ValueError) of the type.
C18_PartWithReltypeInternalOnly ==
    \A o \in Owners, reltype \in RelTypes :
        LET r == part_with_reltype(rels[o], reltype)
            one == _rels_by_reltype(rels[o], reltype)[1]
        IN /\ (CountOfReltype(rels[o], reltype) = 1 /\ ~is_external(one)) =>
                (r.exc = NoExc /\ r.val = one.target /\ r.val \in Parts)
           /\ (CountOfReltype(rels[o], reltype) = 1 /\ is_external(one)) =>
                (r.exc = "ValueError" /\ r.val = None)
           /\ (r.exc = "KeyError") <=> (CountOfReltype(rels[o], reltype) = 0)
           /\ (CountOfReltype(rels[o], reltype) > 1) => (r.exc = "ValueError")
           /\ r.c = rels[o]

\* part_related_by has raised ValueError though no collection holds two
\* relationships of a type: the one it found is External
C18_Witness ==
    /\ ret.op = "part_related_by" /\ ret.exc = "ValueError"
    /\ \A o \in Owners : CountOfReltype(rels[o], RT_SLIDE) <= 1

\* part_related_by has returned the target of the one Internal relationship
C18_WitnessReturned ==
    /\ ret.op = "part_related_by" /\ ret.exc = NoExc /\ ret.val \in Parts

\* the ids looked up
LookupKeys == {RIdStr(1), RIdStr(2), RIdStr(3)}

\* C23: a direct lookup or removal by an rId that is not in the collection
\* (rels[rId], related_part(rId), target_ref(rId), pop(rId), and drop_rel(rId)
\* when the XML refers to rId less than twice) fails with KeyError and leaves
\* the collection unchanged.
C23_AbsentRIdRaisesKeyError ==
    \A o \in Owners, rId \in LookupKeys :
        (rId \notin dict_keys(rels[o])) =>
            LET d == rels[o]
            IN /\ getitem(d, rId) = Raised(d, "KeyError")
               /\ pop(d, rId) = Raised(d, "KeyError")
               /\ (o \in Parts) =>
                     /\ related_part(d, rId) = Raised(d, "KeyError")
                     /\ Part_target_ref(lazy[o], d, rId, partname, rels_base(o))
                           = [c |-> d, exc |-> "KeyError", val |-> None, lazy |-> lazy[o]]
                     /\ \A rIds \in XmlRIdLists :
                           (_rel_ref_count(rIds, rId) < 2) =>
                               drop_rel(d, rId, _rel_ref_count(rIds, rId))
                                 = Raised(d, "KeyError")

\* a drop_rel or related_part of rId1 has raised KeyError while no part
\* holds rId1 and a part holds another relationship
C23_Witness ==
    /\ ret.op \in {"drop_rel", "related_part"}
    /\ ret.exc = "KeyError"
    /\ \A p \in Parts : RIdStr(1) \notin dict_keys(rels[p])
    /\ \E p \in Parts : rels[p] # <<>>

-----------------------------------------------------------------------------
(* Properties of SpecRels: load_rel *)

\* C13: load_rel(reltype, target, rId, external) stores a relationship of
\* exactly that reltype, target and mode under rId, whatever the collection
\* held, under rId or as a match under another id; the size grows by one when
\* rId was no key and not at all otherwise; the other entries stay as they are.
C13_LoadRelInstallsUnderRId ==
    \A ext \in BOOLEAN, reltype \in RelTypes, rId \in RelsKeys :
        \A target \in TargetsOf(ext) :
            LET d == rels[PKG]
                r == load_rel(d, reltype, target, rId, ext)
                rel == Relationship(rId, reltype, IF ext THEN EXTERNAL ELSE INTERNAL, target)
            IN /\ r.exc = NoExc /\ r.val = rel
               /\ rId \in dict_keys(r.c) /\ dict_get(r.c, rId) = rel
               /\ Len(r.c) = Len(d) + (IF rId \in dict_keys(d) THEN 0 ELSE 1)
               /\ Cardinality(dict_keys(r.c)) = Len(r.c)
               /\ OtherEntries(r.c, rId) = OtherEntries(d, rId)

\* load_rel has just stored, under a second id, a relationship equal in
\* reltype, target and mode to one the collection held
C13_Witness ==
    /\ ret.op = "load_rel"
    /\ \E i, j \in DOMAIN rels[PKG] :
          /\ i # j
          /\ rels[PKG][j].rel = ret.val
          /\ rels[PKG][i].rel.reltype = ret.val.reltype
          /\ rels[PKG][i].rel.target = ret.val.target
          /\ rels[PKG][i].rel.target_mode = ret.val.target_mode

-----------------------------------------------------------------------------
(* Properties of SpecRels: what get_or_add leaves alone, and the keys *)

\* C24: get_or_add and get_or_add_ext_rel never modify or remove an existing
\* entry: when no relationship matches, the id allocator yields an id (never
\* no id) that is not a key of the collection, exactly one entry is added
\* under it and every earlier entry is unchanged; when a relationship
\* matches, the collection is unchanged.  In every collection state, with
\* ids installed by load_rel and gaps left by pop.
C24_GetOrAddKeepsEntries ==
    \A ext \in BOOLEAN, reltype \in RelTypes :
        \A target \in TargetsOf(ext) :
            LET d == rels[PKG]
                r == IF ext THEN get_or_add_ext_rel(d, reltype, target)
                     ELSE get_or_add(d, reltype, target)
            IN IF Matching(d, target, reltype, ext) = {}
               THEN /\ _next_rId(d) # None
                    /\ _next_rId(d) \notin dict_keys(d)
                    /\ r.val = _next_rId(d)
                    /\ Len(r.c) = Len(d) + 1
                    /\ SubSeq(r.c, 1, Len(d)) = d
                    /\ r.c[Len(r.c)].key = r.val
                    /\ Cardinality(dict_keys(r.c)) = Len(r.c)
               ELSE r.c = d

\* relate_to has just added rId1 to a collection that held rId2 alone: the
\* id numbered len + 1 was taken
C24_Witness ==
    /\ ret.op = "relate_to" /\ ret.val = RIdStr(1)
    /\ Len(rels[PKG]) = 2
    /\ rels[PKG][1].key = RIdStr(2)
    /\ rels[PKG][2].key = RIdStr(1)

\* C25: in every reachable state of a collection (after any sequence of
\* get_or_add, get_or_add_ext_rel, add_relationship/load_rel, load_from_xml
\* and pop) each entry's key equals the rId stored in the relationship it
\* maps to, so no two relationships of the collection carry the same rId.
C25_KeyIsRId ==
    /\ \A i \in DOMAIN rels[PKG] : rels[PKG][i].key = rels[PKG][i].rel.rId
    /\ \A i, j \in DOMAIN rels[PKG] :
          (rels[PKG][i].rel.rId = rels[PKG][j].rel.rId) => i = j

\* a load_rel has stored a relationship under the id the allocator does not
\* produce, next to one the allocator made
C25_Witness ==
    /\ ret.op = "load_rel"
    /\ Len(rels[PKG]) = 2
    /\ rels[PKG][1].key = RIdStr(1)
    /\ rels[PKG][2].key = "rId01" /\ rels[PKG][2].rel.rId = "rId01"

-----------------------------------------------------------------------------
(* Properties of SpecGrow *)

\* C26: a collection that starts empty and is modified only by get_or_add
\* and get_or_add_ext_rel always has the keys exactly rId1 .. rIdN, N its
\* size, and the k-th relationship created has rId k; the call just made
\* returned one of these ids.
C26_DenseRIds ==
    /\ \A k \in DOMAIN rels[PKG] :
          /\ rels[PKG][k].key = RIdStr(k)
          /\ rels[PKG][k].rel.rId = RIdStr(k)
    /\ dict_keys(rels[PKG]) = {RIdStr(k) : k \in 1..Len(rels[PKG])}
    /\ (ret.op = "relate_to") => ret.val \in dict_keys(rels[PKG])

\* the third relationship has just been created, an external one after two
\* internal ones, and got rId3
C26_Witness ==
    /\ ret.op = "relate_to" /\ ret.val = RIdStr(3)
    /\ Len(rels[PKG]) = 3
    /\ is_external(rels[PKG][3].rel)
    /\ ~is_external(rels[PKG][1].rel)

-----------------------------------------------------------------------------
(* Properties of SpecRels: load_from_xml *)

\* the records of xml_rels that are External or whose resolved target
\* partname is a key of pm
ValidRecords(xml_rels, pm) ==
    {i \in DOMAIN xml_rels :
        \/ xml_rels[i].targetMode = EXTERNAL
        \/ \E p \in pm : partname[p] = from_rel_ref(PACKAGE_URI, xml_rels[i].target_ref)}

\* the entry en is the relationship the record rel_elm describes: under the
\* record's rId, with its reltype and mode and, for Internal, the part of pm
\* with the resolved partname as target
EntryOfRecord(en, rel_elm, pm) ==
    /\ en.key = rel_elm.rId
    /\ en.rel.rId = rel_elm.rId
    /\ en.rel.reltype = rel_elm.reltype
    /\ en.rel.target_mode = rel_elm.targetMode
    /\ IF rel_elm.targetMode = EXTERNAL THEN en.rel.target = rel_elm.target_ref
       ELSE /\ en.rel.target \in pm
            /\ partname[en.rel.target] = from_rel_ref(PACKAGE_URI, rel_elm.target_ref)

\* C21 (as claimed): load_from_xml replaces the collection's contents:
\* afterwards the collection holds exactly one relationship per record of
\* xml_rels that is External or resolves to a key of parts, each under the
\* record's own rId with the record's reltype, mode and target, and no
\* relationship from before the call remains unless xml_rels restates it.
C21_LoadFromXmlOnePerRecord ==
    \A n \in DOMAIN XmlItems, pm \in XmlParts :
            LET xml_rels == XmlItems[n]
                d == load_from_xml(rels[PKG], PACKAGE_URI, xml_rels, pm)
                valid == ValidRecords(xml_rels, pm)
            IN /\ Len(d) = Cardinality(valid)
               /\ \A i \in valid : \E k \in DOMAIN d : EntryOfRecord(d[k], xml_rels[i], pm)
               /\ \A k \in DOMAIN d : \E i \in valid : EntryOfRecord(d[k], xml_rels[i], pm)

\* C21 (amended): afterwards the collection holds exactly one relationship
\* per rId of a record of xml_rels that is External or resolves to a key of
\* parts, under that rId, with the reltype, mode and target of the last such
\* record of that rId, and no relationship from before the call remains
\* unless xml_rels restates it.
C21_LoadFromXmlOnePerRId ==
    \A n \in DOMAIN XmlItems, pm \in XmlParts :
            LET xml_rels == XmlItems[n]
                d == load_from_xml(rels[PKG], PACKAGE_URI, xml_rels, pm)
                valid == ValidRecords(xml_rels, pm)
                last(rId) == CHOOSE i \in valid :
                                /\ xml_rels[i].rId = rId
                                /\ \A j \in valid : xml_rels[j].rId = rId => j <= i
            IN /\ dict_keys(d) = {xml_rels[i].rId : i \in valid}
               /\ Len(d) = Cardinality(dict_keys(d))
               /\ \A k \in DOMAIN d : EntryOfRecord(d[k], xml_rels[last(d[k].key)], pm)

\* load_from_xml has just been given two records and left one relationship,
\* to the slide
C21_Witness ==
    /\ ret.op = "load_from_xml" /\ ret.val = 2
    /\ Len(rels[PKG]) = 1
    /\ rels[PKG][1].rel.target = "slide"

\* load_from_xml has just been given two records of one rId and left one
\* relationship, External, where the first record was Internal
C21_WitnessSameRId ==
    /\ ret.op = "load_from_xml" /\ ret.val = 2
    /\ Len(rels[PKG]) = 1
    /\ is_external(rels[PKG][1].rel)

-----------------------------------------------------------------------------
(* Properties of SpecRef *)

\* the reference from the place of owner o, as it is now, to the partname
\* that part has now
CurrentRef(o, part) ==
    relative_ref(partname[part], IF o = PKG THEN baseURI(PACKAGE_URI) ELSE baseURI(partname[o]))

\* C19 (as claimed): the target reference xml emits for an Internal
\* relationship is the target part's partname at the time of the call,
\* relative to the owner's place at the time of the call, whatever partname
\* assignments and earlier reads came before; for an External relationship it
\* is the raw target.
C19_XmlTargetRefCurrent ==
    \A o \in Owners :
        LET x == xml(lazy[o], rels[o], partname, rels_base(o))
        IN \A i \in DOMAIN x.val :
              x.val[i].target_ref =
                  IF is_external(rels[o][i].rel) THEN rels[o][i].rel.target
                  ELSE CurrentRef(o, rels[o][i].rel.target)

\* the same for the collections whose owner has kept its partname: what
\* fails then is the stored value alone
C19_XmlTargetRefCurrentOwnerInPlace ==
    \A o \in Owners :
        (o = PKG \/ partname[o] = RefPartname[o]) =>
            LET x == xml(lazy[o], rels[o], partname, rels_base(o))
            IN \A i \in DOMAIN x.val :
                  x.val[i].target_ref =
                      IF is_external(rels[o][i].rel) THEN rels[o][i].rel.target
                      ELSE CurrentRef(o, rels[o][i].rel.target)

\* what the code keeps: the reference of an External relationship is its raw
\* target, and a reference never read before is the current one when the
\* owner has kept the partname its collection was created under
C19_FirstReadIsCurrent ==
    \A o \in Owners :
        LET x == xml(lazy[o], rels[o], partname, rels_base(o))
        IN \A i \in DOMAIN x.val :
              /\ is_external(rels[o][i].rel) => x.val[i].target_ref = rels[o][i].rel.target
              /\ (/\ ~is_external(rels[o][i].rel)
                  /\ Stored(lazy[o], rels[o][i].key, "target_partname") = {}
                  /\ Stored(lazy[o], rels[o][i].key, "target_ref") = {}
                  /\ (o = PKG \/ baseURI(partname[o]) = rels_base(o)))
                 => x.val[i].target_ref = CurrentRef(o, rels[o][i].rel.target)

-----------------------------------------------------------------------------
(* Properties of SpecLoad *)

\* the classes registered for content_type
RegisteredFor(content_type) == {en.cls : en \in {x \in part_type_for : x.ct = content_type}}

\* C17: PartFactory constructs the part with the class registered for its
\* content type when one is registered and with the generic Part for every
\* unregistered content type, and no load or graph operation (open,
\* relate_to, load_rel, drop_rel, iter_parts, save) changes the registry:
\* only a registration does.
C17_FactoryDispatchRegistryFixed ==
    /\ [](ret.op = "PartFactory" =>
            LET part == part_obj[ret.val]
            IN IF RegisteredFor(part.content_type) # {}
               THEN part.cls \in RegisteredFor(part.content_type)
               ELSE part.cls = "Part" /\ part.blob # None)
    /\ [][part_type_for' # part_type_for => ret'.op = "register"]_vars

\* the factory has made the slide with the registered class and now the
\* layout, whose content type is not registered, as a generic Part
C17_Witness ==
    /\ ret.op = "PartFactory"
    /\ ret.val = "layout"
    /\ part_type_for # {}
    /\ part_obj["slide"].cls = "XmlPart"
    /\ part_obj["layout"].cls = "Part"

\* a graph operation has run on a package loaded under a registration
C17_WitnessOperation ==
    /\ ret.op \in {"relate_to", "load_rel", "drop_rel", "iter_parts", "save"}
    /\ part_type_for # {}

\* the last index of q holding a record of source_uri under rId
LastOf(q, source_uri, rId) ==
    LET hits == {i \in DOMAIN q : q[i].source_uri = source_uri /\ q[i].srel.rId = rId}
    IN CHOOSE i \in hits : \A j \in hits : j <= i

\* the graph g with the parts po is what the reader content src describes:
\* every part is constructed from its record, every record of a part's
\* relationships is installed (the last one of an rId standing), and the
\* package's collection holds relationships of the root rels item only
FullyWired(g, po, src) ==
    /\ \A i \in DOMAIN src.sparts :
          LET spart == src.sparts[i]
          IN /\ po[spart.part] # NoPart
             /\ po[spart.part].content_type = spart.content_type
    /\ \A i \in DOMAIN src.srels :
          LET rec == src.srels[i]
              last == src.srels[LastOf(src.srels, rec.source_uri, rec.srel.rId)].srel
          IN (rec.source_uri # PACKAGE_URI) =>
                \E p \in Parts :
                   /\ partname[p] = rec.source_uri
                   /\ \E k \in DOMAIN g[p] :
                         /\ g[p][k].key = last.rId
                         /\ g[p][k].rel.reltype = last.reltype
                         /\ is_external(g[p][k].rel) = last.is_external
                         /\ IF last.is_external THEN g[p][k].rel.target = last.target_ref
                            ELSE partname[g[p][k].rel.target] = last.target_partname
    /\ \A k \in DOMAIN g[PKG] :
          \E i \in DOMAIN src.root :
             /\ g[PKG][k].key = src.root[i].rId
             /\ g[PKG][k].rel.target_mode = src.root[i].targetMode
             /\ IF src.root[i].targetMode = EXTERNAL
                THEN g[PKG][k].rel.target = src.root[i].target_ref
                ELSE partname[g[PKG][k].rel.target]
                        = from_rel_ref(PACKAGE_URI, src.root[i].target_ref)

\* C15: open() either returns a package whose graph is fully wired (all
\* parts constructed, all relationship records processed, root relationships
\* loaded) or fails with the error propagated; on a failure in the part pass,
\* the relationship pass or the root-relationship load no package is
\* returned, and nothing runs on one afterwards.
C15_OpenAllOrNothing ==
    /\ [](ret.op = "open" =>
            \/ ret.exc = NoExc /\ phase = "live"
            \/ ret.exc # NoExc /\ phase = "failed")
    /\ [][phase # "failed"]_vars
    /\ [][(ret'.op = "open" /\ ret'.exc = NoExc) =>
            /\ reader.sparts = <<>> /\ reader.srels = <<>> /\ reader.root = <<>>
            /\ FullyWired(rels', part_obj', reader.src)]_vars
    /\ [][(phase' = "live") => (phase = "live" \/ (ret'.op = "open" /\ ret'.exc = NoExc))]_vars

\* open() has failed in the relationship pass, after the parts were made
C15_Witness ==
    /\ phase = "failed"
    /\ ret.exc = "KeyError"
    /\ part_obj["slide"] # NoPart /\ part_obj["layout"] # NoPart

\* open() has failed in the part pass
C15_WitnessPartPass == phase = "failed" /\ part_obj["slide"] = NoPart

\* open() has failed in the root-relationship load
C15_WitnessRootLoad ==
    phase = "failed" /\ ret.exc = "XMLSyntaxError" /\ part_obj["slide"] # NoPart

\* open() has returned a package with relationships of the package and of a part
C15_WitnessReturned ==
    ret.op = "open" /\ ret.exc = NoExc /\ rels[PKG] # <<>> /\ rels["slide"] # <<>>

\* the (partname, content type, blob) of the parts of the graph g
PartFacts(g, po) ==
    {<<partname[p], po[p].content_type, blob_of(po[p])>> :
        p \in {iter_parts(g)[i] : i \in DOMAIN iter_parts(g)}}

\* the (reltype, resolved target, mode) of the relationships of a
\* collection, the target being a reference or a partname
RelFacts(d) ==
    {<<d[i].rel.reltype,
       IF is_external(d[i].rel) THEN d[i].rel.target ELSE "",
       IF is_external(d[i].rel) THEN <<>> ELSE partname[d[i].rel.target],
       d[i].rel.target_mode>> : i \in DOMAIN d}

\* C14: for every loaded package, saving it and loading what the writer was
\* handed yields a graph whose iter_parts() has the same set of (partname,
\* content type, blob) and whose owners have the same sets of (reltype,
\* resolved target, mode) as the graph before the save.
C14_RoundTrip ==
    phase = "live" =>
        LET again == load(part_type_for, saved(rels, part_obj))
        IN /\ again.exc = NoExc
           /\ PartFacts(again.g, again.po) = PartFacts(rels, part_obj)
           /\ \A o \in {PKG} \cup {iter_parts(rels)[i] : i \in DOMAIN iter_parts(rels)} :
                 RelFacts(again.g[o]) = RelFacts(rels[o])

\* a loaded package in which the package relates to the slide, an XML part,
\* and the slide to a part in another directory
C14_Witness ==
    /\ ret.op = "open" /\ ret.exc = NoExc
    /\ \E i \in DOMAIN rels[PKG] : rels[PKG][i].rel.target = "slide"
    /\ \E i \in DOMAIN rels["slide"] : rels["slide"][i].rel.target = "layout"
    /\ part_obj["slide"].cls = "XmlPart"

\* a loaded package whose slide has an External relationship
C14_WitnessExternal ==
    /\ ret.op = "open" /\ ret.exc = NoExc
    /\ \E i \in DOMAIN rels[PKG] : rels[PKG][i].rel.target = "slide"
    /\ \E i \in DOMAIN rels["slide"] : is_external(rels["slide"][i].rel)

====
